---- MODULE Spec2Model ----
(***************************************************************************)
(* Neon Wisp: the scene (App.tsx, GameScene.tsx: GameLoop, SentinelManager *)
(* and the React state they share) and the agent (Wisp useFrame).          *)
(*                                                                         *)
(* Spec runs the scene; its agent is a position that each tick displaces.  *)
(* SpecWisp runs the agent's physics tick in a scene without sentinels.    *)
(* SpecProbe applies checkCollision to one point among given buildings.    *)
(* SpecFall runs the agent's tick without input over open ground.          *)
(*                                                                         *)
(* Units.  Scene lengths are tenths of a world unit, times are             *)
(* milliseconds, sentinel speeds are thousandths of a unit per second.     *)
(* Floating point results are rounded to the grid (RDiv, SqrtSearch).      *)
(* The scene is the plane z = 0: a scene position is a record [x, y].      *)
(***************************************************************************)
EXTENDS Integers, Sequences, FiniteSets, TLC

\* ------------------------------------------------------------------ bounds
\* frames rendered in one run of the scene
MaxFrames == 2
\* physics ticks in one run of the agent
MaxTicks == 3
\* physics ticks in one free fall
MaxFallTicks == 30

\* ------------------------------------------------------------- arithmetic
Abs(a) == IF a < 0 THEN -a ELSE a
Sign(a) == IF a < 0 THEN -1 ELSE IF a > 0 THEN 1 ELSE 0
Min2(a, b) == IF a <= b THEN a ELSE b
Max2(a, b) == IF a >= b THEN a ELSE b

\* a / b rounded to the nearest integer, halves away from zero (b > 0)
RDiv(a, b) == Sign(a) * ((2 * Abs(a) + b) \div (2 * b))

\* floor of the square root of n, known to lie in lo..hi
RECURSIVE SqrtSearch(_, _, _)
SqrtSearch(n, lo, hi) ==
  IF lo >= hi THEN lo
  ELSE LET mid == (lo + hi + 1) \div 2
       IN IF mid * mid <= n THEN SqrtSearch(n, mid, hi)
          ELSE SqrtSearch(n, lo, mid - 1)

\* ---------------------------------------------------------------- vectors
Vec(a, b) == [x |-> a, y |-> b]
VAdd(p, q) == Vec(p.x + q.x, p.y + q.y)
VSub(p, q) == Vec(p.x - q.x, p.y - q.y)
VDot(p, q) == p.x * q.x + p.y * q.y
\* Vector3.length: the root lies between the larger component and their sum
VLength(p) == SqrtSearch(VDot(p, p), Max2(Abs(p.x), Abs(p.y)), Abs(p.x) + Abs(p.y))
\* Vector3.distanceTo
DistanceTo(p, q) == VLength(VSub(p, q))
\* Vector3.normalize, in thousandths: divideScalar(length || 1)
Normalize(p) ==
  LET len == VLength(p)
  IN IF len = 0 THEN Vec(p.x * 1000, p.y * 1000)
     ELSE Vec(RDiv(p.x * 1000, len), RDiv(p.y * 1000, len))
\* twice the first point, in place of the sum of the two
FirstPoint2(p, q) == Vec(p.x + p.x, p.y + p.y)
\* clone().add(other).multiplyScalar(0.5), on twice the grid to stay exact
MidPoint2(p, q) == Vec(p.x + q.x, p.y + q.y)

\* the agent's vectors, <<x, y, z>>
V3Add(p, q) == <<p[1] + q[1], p[2] + q[2], p[3] + q[3]>>
V3Sub(p, q) == <<p[1] - q[1], p[2] - q[2], p[3] - q[3]>>
V3Dot(p, q) == p[1] * q[1] + p[2] * q[2] + p[3] * q[3]
\* multiplyScalar(num / den)
V3Scale(p, num, den) == <<RDiv(p[1] * num, den), RDiv(p[2] * num, den), RDiv(p[3] * num, den)>>
V3Length(p) ==
  SqrtSearch(V3Dot(p, p), Max2(Abs(p[1]), Max2(Abs(p[2]), Abs(p[3]))),
             Abs(p[1]) + Abs(p[2]) + Abs(p[3]))
\* normalize(), in thousandths
V3Normalize(p) ==
  LET len == V3Length(p)
  IN IF len = 0 THEN <<0, 0, 0>> ELSE V3Scale(p, 1000, len)

\* ------------------------------------------------------ program constants
SentinelRadius == 20
KillDistance == 20
DestructionThreshold == 30
SlowdownRadius == 600
MaxDt == 50
ProximityInterval == 100
DestructionDelay == 100
ExplosionLifetime == 1000
BaseSentinels == 3
BaseSentinelSpeed == 12000
NoSentinelDistance == 10000
\* the agent's cap on a tick's time step, and a tick that takes the frame's delta as it comes
WispMaxDt == 50
WispDtUnclamped(delta) == delta
\* const dt = Math.min(delta, 0.05) of the agent's useFrame
WispDt(delta) == Min2(delta, WispMaxDt)

\* ------------------------------------------------------------------ inputs
\* frame deltas handed to useFrame: a 20 Hz frame and a stalled one
Deltas == {50, 1100}
\* what one agent tick adds to the agent's position (|v| = 12 at dt = 0.05)
PlayerSteps == {Vec(0, 0), Vec(6, 0)}
\* the spawn draw: angle 0, distance 250 or 252, relativeHeight 0
SpawnOffsets == {Vec(2500, 0), Vec(2520, 0)}
\* the city the scene builds: one tower, 30 x 60 x 40, 100 units east of the origin
CityBlock == << [position |-> <<1170, 300, 0>>, scale |-> <<300, 600, 400>>] >>
\* playerPosRef as GameScene creates it, new THREE.Vector3(0, 30, 0)
SpawnPoint == Vec(0, 300)

VARIABLES
  gameStarted, isGameOver, isLocked, isMobile, score,   \* App state, as rendered
  sentinels,            \* GameScene state: <<[id, speed, pos, fresh]>>, pos the mesh position
  collectedStars,       \* GameScene state: ids of the stars collected
  explosions,           \* GameScene state: <<[id, pos2]>>
  updates,              \* React state updates queued and not yet rendered
  playerPosRef, gameTimeRef, lastSpawnTime,
  destructionPending, lastProximityReport,
  timers,               \* setTimeout callbacks not yet run: [kind, id, due]
  clock, notBefore,     \* time of the last frame; earliest time of the next
  frameNo, nextId, nextExplosion,
  ev,                   \* what the last step emitted
  hist,                 \* what earlier ticks emitted
  \* the refs of the mounted Wisp
  position, velocity, state, wallNormal, canJump, canGrapple, grapplePoint,
  wallJumpCooldown,
  collectedCache,       \* the mounted Wisp's own set of collected star ids
  tickNo,               \* physics ticks the agent has run
  wev,                  \* what the agent's last tick did
  sinceJump,            \* "none": no jump yet; "held" / "released": jump input since the last jump
  sinceDetach,          \* the same for the grapple input since a landing last dropped the anchor
  wallJumpAge,          \* clamped time since the last wall jump, ms, up to WallJumpPause; -1: none
  buildings,            \* the buildings prop: <<[position, scale]>>, tenths
  stars,                \* the stars prop, those within the agent's reach: <<[id, position]>>
  probe, outcome        \* a point handed to checkCollision, and what it returned

sceneVars == <<gameStarted, isGameOver, isLocked, isMobile, score, sentinels,
               collectedStars, explosions, updates, playerPosRef, gameTimeRef, lastSpawnTime,
               destructionPending, lastProximityReport, timers, clock, notBefore,
               frameNo, nextId, nextExplosion, ev, hist>>

wispVars == <<position, velocity, state, wallNormal, canJump, canGrapple, grapplePoint,
              wallJumpCooldown, collectedCache, tickNo, wev, sinceJump, sinceDetach,
              wallJumpAge>>

worldVars == <<buildings, stars, probe, outcome>>

vars == <<sceneVars, wispVars, worldVars>>

\* a Wisp that mounts with both latches cleared
MountedSpent ==
  [position |-> <<0, 3000, 0>>, velocity |-> <<0, 0, 0>>, state |-> "AIR",
   wallNormal |-> <<0, 0, 0>>, canJump |-> FALSE, canGrapple |-> FALSE,
   grapplePoint |-> <<>>, wallJumpCooldown |-> 0, sinceJump |-> "none",
   sinceDetach |-> "none", wallJumpAge |-> -1]

\* the agent's refs when the component mounts, <group position={[0, 30, 0]}>
Mounted ==
  [position |-> <<0, 3000, 0>>, velocity |-> <<0, 0, 0>>, state |-> "AIR",
   wallNormal |-> <<0, 0, 0>>, canJump |-> TRUE, canGrapple |-> TRUE,
   grapplePoint |-> <<>>, wallJumpCooldown |-> 0, sinceJump |-> "none",
   sinceDetach |-> "none", wallJumpAge |-> -1]

\* onUpdatePosition: the agent's position on the scene's grid
ToScene(pos) == Vec(RDiv(pos[1], 10), RDiv(pos[2], 10))

NoWispEvent ==
  [tick |-> FALSE, jump |-> FALSE, grapple |-> FALSE, jumped |-> "none", attached |-> FALSE,
   contact |-> "none", landed |-> FALSE, anchored |-> FALSE, from |-> "AIR",
   since |-> "none", dt |-> 0, inView |-> FALSE, at |-> "AIR", vy |-> 0, fell |-> 0,
   moved |-> <<0, 0, 0>>, spring |-> 0, swing |-> 0, speed |-> 0,
   released |-> <<0, 0, 0>>, boosted |-> FALSE, boosts |-> 0,
   free |-> FALSE, input |-> FALSE, along |-> 0, pushed |-> 0, floorY |-> 0]

Upd(op, ids, a, b, c, v) == [op |-> op, ids |-> ids, a |-> a, b |-> b, c |-> c, v |-> v]

NoEvent(kind) ==
  [kind |-> kind, sentinelTick |-> FALSE, checked |-> FALSE, destroyed |-> {},
   explosions |-> <<>>, gameOver |-> 0, proximity |-> -1, wispTick |-> FALSE,
   spawnRequested |-> FALSE, moved |-> FALSE, dt |-> 0, fresh |-> {},
   delta |-> 0, wdt |-> 0, collected |-> {}, refused |-> 0]

\* ------------------------------------------------- SentinelManager useFrame
\* the six face distances in the order the code compares them
FaceDistances(b, p) ==
  LET minX == b.position[1] - b.scale[1] \div 2 - SentinelRadius
      maxX == b.position[1] + b.scale[1] \div 2 + SentinelRadius
      minY == b.position[2] - b.scale[2] \div 2 - SentinelRadius
      maxY == b.position[2] + b.scale[2] \div 2 + SentinelRadius
      minZ == b.position[3] - b.scale[3] \div 2 - SentinelRadius
      maxZ == b.position[3] + b.scale[3] \div 2 + SentinelRadius
  IN << Abs(p.x - minX), Abs(p.x - maxX), Abs(0 - minZ), Abs(0 - maxZ),
        Abs(p.y - minY), Abs(p.y - maxY) >>

FaceNormals == << <<-1, 0, 0>>, <<1, 0, 0>>, <<0, 0, -1>>, <<0, 0, 1>>,
                  <<0, -1, 0>>, <<0, 1, 0>> >>

\* broadphase, then strict containment in the box grown by the radius
SentinelHits(b, p) ==
  /\ ~(Abs(p.x - b.position[1]) > b.scale[1] \div 2 + SentinelRadius + 40)
  /\ ~(Abs(0 - b.position[3]) > b.scale[3] \div 2 + SentinelRadius + 40)
  /\ ~(Abs(p.y - b.position[2]) > b.scale[2] \div 2 + SentinelRadius + 40)
  /\ p.x > b.position[1] - b.scale[1] \div 2 - SentinelRadius
  /\ p.x < b.position[1] + b.scale[1] \div 2 + SentinelRadius
  /\ p.y > b.position[2] - b.scale[2] \div 2 - SentinelRadius
  /\ p.y < b.position[2] + b.scale[2] \div 2 + SentinelRadius
  /\ 0 > b.position[3] - b.scale[3] \div 2 - SentinelRadius
  /\ 0 < b.position[3] + b.scale[3] \div 2 + SentinelRadius

\* the normal of the first building hit (<<0,0,0>> stands for null)
CollisionNormal(p) ==
  LET hit == {k \in 1..Len(buildings) : SentinelHits(buildings[k], p)}
  IN IF hit = {} THEN <<0, 0, 0>>
     ELSE LET k == CHOOSE k \in hit : \A m \in hit : k <= m
              d == FaceDistances(buildings[k], p)
              least == CHOOSE v \in {d[f] : f \in 1..6} : \A f \in 1..6 : v <= d[f]
              first == CHOOSE f \in 1..6 : d[f] = least /\ \A g \in 1..(f - 1) : d[g] # least
          IN FaceNormals[first]

\* linear slowdown inside the near field: 30% at distance 0, 100% at 60
EffectiveSpeed(speed, dist) ==
  IF dist < SlowdownRadius
  THEN (speed * (300 + (dist * 700) \div SlowdownRadius)) \div 1000
  ELSE speed

\* one sentinel's step of the forEach: the displacement added to mesh.position
MoveStep(s, playerPos, dt) ==
  LET dist == DistanceTo(s.pos, playerPos)
      eff == EffectiveSpeed(s.speed, dist)
      dir == Normalize(VSub(playerPos, s.pos))
      step == Vec(RDiv(dir.x * eff * dt, 100000000), RDiv(dir.y * eff * dt, 100000000))
      n == CollisionNormal(VAdd(s.pos, step))
  IN IF n = <<0, 0, 0>> THEN step
     ELSE LET vDotN == step.x * n[1] + step.y * n[2]
          IN Vec(step.x - n[1] * vDotN, step.y - n[2] * vDotN + dt \div 10)

MoveAll(ss, playerPos, dt) ==
  [i \in 1..Len(ss) |->
     [ss[i] EXCEPT !.pos = VAdd(ss[i].pos, MoveStep(ss[i], playerPos, dt)),
                   !.fresh = FALSE]]

\* a report of the first sentinel's distance only
FirstDistance(ss, playerPos) ==
  IF ss = <<>> THEN NoSentinelDistance
  ELSE Min2(DistanceTo(ss[1].pos, playerPos), NoSentinelDistance)

\* distances sampled by the forEach, before each sentinel moves
MinDistance(ss, playerPos) ==
  LET ds == {DistanceTo(ss[i].pos, playerPos) : i \in 1..Len(ss)} \cup {NoSentinelDistance}
  IN CHOOSE d \in ds : \A e \in ds : d <= e

\* a forEach that never calls onGameOver
NoKillCalls(ss, playerPos) == 0

KillCalls(ss, playerPos) ==
  Cardinality({i \in 1..Len(ss) : DistanceTo(ss[i].pos, playerPos) < KillDistance})

\* the inner loop over j > i: id1 is not looked at again once it is dead
RECURSIVE PairInner(_, _, _, _)
PairInner(ss, i, j, acc) ==
  IF j > Len(ss) THEN acc
  ELSE IF ss[j].id \in acc.dead THEN PairInner(ss, i, j + 1, acc)
  ELSE IF DistanceTo(ss[i].pos, ss[j].pos) < DestructionThreshold
  THEN PairInner(ss, i, j + 1,
         [dead |-> acc.dead \cup {ss[i].id, ss[j].id},
          expl |-> Append(acc.expl, [a |-> ss[i].id, b |-> ss[j].id,
                                     pos2 |-> MidPoint2(ss[i].pos, ss[j].pos)])])
  ELSE PairInner(ss, i, j + 1, acc)

RECURSIVE PairOuter(_, _, _)
PairOuter(ss, i, acc) ==
  IF i > Len(ss) THEN acc
  ELSE IF ss[i].id \in acc.dead THEN PairOuter(ss, i + 1, acc)
  ELSE PairOuter(ss, i + 1, PairInner(ss, i, i + 1, acc))

\* the scan with the proximity test switched off
NoScan(ss) == [dead |-> {}, expl |-> <<>>]

DestructionScan(ss) == PairOuter(ss, 1, [dead |-> {}, expl |-> <<>>])

\* ---------------------------------------------------------- GameLoop useFrame
SpawnDelay(time) == Max2(1000, 5000 - time \div 50)
MaxSentinels(time) == BaseSentinels + time \div 25000
SentinelSpeed(time, sc) == BaseSentinelSpeed + time \div 20 + sc * 200

\* the updates the GameLoop callback queues, and the game time it leaves
GameLoopFrame(delta, now, off) ==
  IF isGameOver \/ ~gameStarted
  THEN [time |-> gameTimeRef, queued |-> <<>>]
  ELSE LET time == IF isLocked \/ isMobile THEN gameTimeRef + delta ELSE gameTimeRef
       IN [time |-> time,
           queued |->
             IF now - lastSpawnTime > SpawnDelay(time)
             THEN << Upd("spawn", {}, MaxSentinels(time), SentinelSpeed(time, score), now, off) >>
             ELSE <<>>]

\* ------------------------------------------------- SentinelManager useFrame
\* the body of the callback past its guard: moved meshes, events, the ref values
SentinelTick(delta, now) ==
  LET dt == Min2(delta, MaxDt)
      moved == MoveAll(sentinels, playerPosRef, dt)
      report == now - lastProximityReport > ProximityInterval
      scan == IF destructionPending THEN [dead |-> {}, expl |-> <<>>]
              ELSE DestructionScan(moved)
  IN [ran |-> TRUE, sentinels |-> moved,
      kills |-> KillCalls(sentinels, playerPosRef),
      proximity |-> IF report THEN MinDistance(sentinels, playerPosRef) ELSE -1,
      lastReport |-> IF report THEN now ELSE lastProximityReport,
      checked |-> ~destructionPending,
      dead |-> scan.dead, expl |-> scan.expl, dt |-> dt,
      fresh |-> {sentinels[i].id : i \in {k \in 1..Len(sentinels) : sentinels[k].fresh}}]

\* the callback without its isGameOver guard
SentinelTickUnguarded(delta, now) == SentinelTick(delta, now)

\* if (isGameOver) return
SentinelFrame(delta, now) ==
  IF isGameOver
  THEN [ran |-> FALSE, sentinels |-> sentinels, kills |-> 0, proximity |-> -1,
        lastReport |-> lastProximityReport, checked |-> FALSE,
        dead |-> {}, expl |-> <<>>, dt |-> 0, fresh |-> {}]
  ELSE SentinelTick(delta, now)

\* handleExplosion: one queued setExplosions and one cleanup timer per call
ExplosionRecords(expl) ==
  [k \in 1..Len(expl) |-> [id |-> nextExplosion + k - 1, pos2 |-> expl[k].pos2]]

Accumulate(h, e) ==
  [destroyed |-> h.destroyed \cup e.destroyed,
   pairs |-> h.pairs \cup {{e.explosions[k].a, e.explosions[k].b} : k \in 1..Len(e.explosions)},
   gameOver |-> Min2(h.gameOver + e.gameOver, 2),
   session |-> IF e.kind = "restart" THEN 0 ELSE Min2(h.session + e.gameOver, 2),
   stars |-> IF e.kind = "restart" THEN {} ELSE h.stars \cup e.collected]

\* ------------------------------------------------------- Wisp: star logic
\* a star logic without the cache of collected ids
StarsInReachUncached(pos, cache) ==
  {stars[i].id : i \in {k \in 1..Len(stars) :
                         V3Dot(V3Sub(pos, stars[k].position), V3Sub(pos, stars[k].position))
                           < 1200 * 1200}}

\* Star Collision Logic: the stars not in the cache that are less than 12 units away
StarsInReach(pos, cache) ==
  {stars[i].id : i \in {k \in 1..Len(stars) :
                         /\ stars[k].id \notin cache
                         /\ V3Dot(V3Sub(pos, stars[k].position), V3Sub(pos, stars[k].position))
                              < 1200 * 1200}}

\* handleStarCollected, once per star in the order of the stars prop
CollectCalls(ids) ==
  LET Picked(x) == x.id \in ids
      picked == SelectSeq(stars, Picked)
  IN [k \in 1..Len(picked) |-> Upd("collect", {picked[k].id}, 0, 0, 0, <<>>)]

\* -------------------------------------------------------------- one frame
\* r3f runs the subscribed callbacks in mount order: GameLoop, SentinelManager, Wisp
Frame(delta, pstep, off) ==
  /\ frameNo < MaxFrames
  /\ clock + delta >= notBefore
  /\ \E now \in {clock + delta} :
     \E g \in {GameLoopFrame(delta, now, off)}, m \in {SentinelFrame(delta, now)} :
     \E xs \in {ExplosionRecords(m.expl)}, wispTicks \in {~isGameOver /\ gameStarted /\ isLocked},
        wdt \in {WispDt(delta)} :
     \E found \in {IF wispTicks THEN StarsInReach(position, collectedCache) ELSE {}} :
     \E newPos \in {V3Add(position, V3Scale(<<10 * pstep.x, 10 * pstep.y, 0>>, wdt, WispMaxDt))} :
        /\ clock' = now
        /\ frameNo' = frameNo + 1
        /\ gameTimeRef' = g.time
        /\ sentinels' = m.sentinels
        /\ lastProximityReport' = m.lastReport
        /\ destructionPending' = (destructionPending \/ m.dead # {})
        /\ nextExplosion' = nextExplosion + Len(xs)
        /\ timers' = timers
             \cup {[kind |-> "cleanup", id |-> xs[k].id, due |-> now + ExplosionLifetime] : k \in 1..Len(xs)}
             \cup (IF m.dead # {} THEN {[kind |-> "pending", id |-> 0, due |-> now + DestructionDelay]} ELSE {})
        /\ updates' = updates \o g.queued
             \o (IF m.kills > 0 THEN << Upd("gameOver", {}, 0, 0, 0, <<>>) >> ELSE <<>>)
             \o [k \in 1..Len(xs) |-> Upd("explode", {}, 0, 0, 0, xs[k])]
             \o (IF m.dead # {} THEN << Upd("destroy", m.dead, 0, 0, 0, <<>>) >> ELSE <<>>)
             \o CollectCalls(found)
        /\ collectedCache' = collectedCache \cup found
        /\ position' = IF wispTicks THEN newPos ELSE position
        /\ playerPosRef' = IF wispTicks THEN ToScene(newPos) ELSE playerPosRef
        /\ ev' = [kind |-> "frame", sentinelTick |-> m.ran, checked |-> m.checked,
                  destroyed |-> m.dead, explosions |-> m.expl, gameOver |-> m.kills,
                  proximity |-> m.proximity, wispTick |-> wispTicks,
                  spawnRequested |-> g.queued # <<>>,
                  moved |-> m.sentinels # sentinels, dt |-> m.dt, fresh |-> m.fresh,
                  delta |-> delta, wdt |-> IF wispTicks THEN wdt ELSE 0,
                  collected |-> found, refused |-> 0]
        /\ hist' = Accumulate(hist, ev)
  /\ UNCHANGED <<gameStarted, isGameOver, isLocked, isMobile, score, explosions,
                 collectedStars, lastSpawnTime, notBefore, nextId>>
  /\ UNCHANGED <<velocity, state, wallNormal, canJump, canGrapple, grapplePoint,
                 wallJumpCooldown, tickNo, wev, sinceJump, sinceDetach, wallJumpAge>>
  /\ UNCHANGED worldVars

\* ------------------------------------------------------------ React render
Rendered ==
  [gameStarted |-> gameStarted, isGameOver |-> isGameOver, isLocked |-> isLocked,
   score |-> score, sentinels |-> sentinels, explosions |-> explosions,
   collectedStars |-> collectedStars, lastSpawnTime |-> lastSpawnTime, nextId |-> nextId]

\* an updater that appends whatever the number of sentinels
SpawnUpdaterUncapped(R, u) ==
  [R EXCEPT !.lastSpawnTime = u.c,
            !.nextId = @ + 1,
            !.sentinels = Append(@,
               [id |-> R.nextId, speed |-> u.b, fresh |-> TRUE,
                pos |-> Vec(playerPosRef.x + u.v.x, Max2(100, playerPosRef.y + u.v.y))])]

\* GameLoop's setSentinels updater, u.a the maxSentinels of the frame that queued it
SpawnUpdater(R, u) ==
  IF Len(R.sentinels) >= u.a THEN R
  ELSE [R EXCEPT !.lastSpawnTime = u.c,
                 !.nextId = @ + 1,
                 !.sentinels = Append(@,
                    [id |-> R.nextId, speed |-> u.b, fresh |-> TRUE,
                     pos |-> Vec(playerPosRef.x + u.v.x,
                                 Max2(100, playerPosRef.y + u.v.y))])]

\* one queued update applied to the state being rendered
ApplyUpdate(R, u) ==
  CASE u.op = "spawn" -> SpawnUpdater(R, u)
    [] u.op = "destroy" ->
         \* handleSentinelsDestroyed
         [R EXCEPT !.sentinels = LET Alive(x) == x.id \notin u.ids IN SelectSeq(@, Alive)]
    [] u.op = "explode" ->
         [R EXCEPT !.explosions = Append(@, u.v)]
    [] u.op = "cleanup" ->
         [R EXCEPT !.explosions = LET Other(x) == x.id # u.a IN SelectSeq(@, Other)]
    [] u.op = "gameOver" ->
         \* handleGameOver
         [R EXCEPT !.isGameOver = TRUE, !.isLocked = FALSE]
    [] u.op = "restart" ->
         \* handleRestart
         [R EXCEPT !.score = 0, !.isGameOver = FALSE, !.isLocked = FALSE]
    [] u.op = "start" ->
         \* handleStartGame
         [R EXCEPT !.gameStarted = TRUE, !.isLocked = IF u.a = 1 THEN TRUE ELSE @]
    [] u.op = "lock" ->
         [R EXCEPT !.isLocked = (u.a = 1)]
    [] u.op = "collect" ->
         \* handleStarCollected, and handleCollectStar through onCollectStar
         [R EXCEPT !.collectedStars = @ \cup u.ids, !.score = @ + 1]

RECURSIVE ApplyUpdates(_, _)
ApplyUpdates(R, us) ==
  IF us = <<>> THEN R ELSE ApplyUpdates(ApplyUpdate(R, Head(us)), Tail(us))

\* the queue, then `more`, rendered in one commit; then the effects of the commit:
\* the "Reset Game State" effect and the mount of a new Wisp
RenderWith(more, kind) ==
  \E R \in {ApplyUpdates(Rendered, updates \o more)} :
  \E reset \in {(R.isGameOver # isGameOver \/ R.score # score) /\ ~R.isGameOver /\ R.score = 0},
     remount \in {isGameOver /\ ~R.isGameOver} :
     /\ gameStarted' = R.gameStarted
     /\ isGameOver' = R.isGameOver
     /\ isLocked' = R.isLocked
     /\ score' = R.score
     /\ lastSpawnTime' = R.lastSpawnTime
     /\ nextId' = R.nextId
     /\ sentinels' = IF reset THEN <<>> ELSE R.sentinels
     /\ explosions' = IF reset THEN <<>> ELSE R.explosions
     /\ collectedStars' = IF reset THEN {} ELSE R.collectedStars
     /\ collectedCache' = (IF remount THEN {} ELSE collectedCache) \cup R.collectedStars
     /\ gameTimeRef' = IF reset THEN 0 ELSE gameTimeRef
     /\ position' = IF remount THEN Mounted.position ELSE position
     /\ velocity' = IF remount THEN Mounted.velocity ELSE velocity
     /\ state' = IF remount THEN Mounted.state ELSE state
     /\ wallNormal' = IF remount THEN Mounted.wallNormal ELSE wallNormal
     /\ canJump' = IF remount THEN Mounted.canJump ELSE canJump
     /\ canGrapple' = IF remount THEN Mounted.canGrapple ELSE canGrapple
     /\ grapplePoint' = IF remount THEN Mounted.grapplePoint ELSE grapplePoint
     /\ wallJumpCooldown' = IF remount THEN Mounted.wallJumpCooldown ELSE wallJumpCooldown
     /\ sinceJump' = IF remount THEN Mounted.sinceJump ELSE sinceJump
     /\ sinceDetach' = IF remount THEN Mounted.sinceDetach ELSE sinceDetach
     /\ wallJumpAge' = IF remount THEN Mounted.wallJumpAge ELSE wallJumpAge
     /\ wev' = IF remount THEN NoWispEvent ELSE wev
     /\ updates' = <<>>
     /\ ev' = [NoEvent(kind) EXCEPT
                 !.refused = Cardinality({k \in 1..Len(updates) : updates[k].op = "spawn"})
                             - (R.nextId - nextId)]
     /\ hist' = Accumulate(hist, ev)
     /\ UNCHANGED <<isMobile, playerPosRef, destructionPending, lastProximityReport,
                    timers, clock, notBefore, frameNo, nextExplosion, tickNo>>
     /\ UNCHANGED worldVars

Render == updates # <<>> /\ RenderWith(<<>>, "render")

\* --------------------------------------------------------------- UI events
\* TitleScreen onStart -> handleStartGame
HandleStartGame ==
  /\ ~gameStarted
  /\ RenderWith(<< Upd("start", {}, IF isMobile THEN 0 ELSE 1, 0, 0, <<>>) >>, "start")

\* HUD reboot button (rendered while isGameOver) -> handleRestart
HandleRestart ==
  /\ gameStarted /\ isGameOver
  /\ RenderWith(<< Upd("restart", {}, 0, 0, 0, <<>>) >>, "restart")

\* PointerLockControls onLock -> handleLock
HandleLock ==
  /\ ~isMobile /\ gameStarted /\ ~isLocked
  /\ RenderWith(IF ~isGameOver THEN << Upd("lock", {}, 1, 0, 0, <<>>) >> ELSE <<>>, "lock")

\* PointerLockControls onUnlock -> handleUnlock
HandleUnlock ==
  /\ ~isMobile /\ gameStarted /\ isLocked
  /\ RenderWith(<< Upd("lock", {}, 0, 0, 0, <<>>) >>, "unlock")

\* ------------------------------------------------------------------ timers
\* a setTimeout callback runs, no earlier than its due time and in due order; the
\* 100 ms flag reset may run between two frames, an explosion's cleanup is taken
\* after the first frame past its due time
TimerFires(t) ==
  /\ t \in timers
  /\ \A o \in timers : t.due <= o.due
  /\ t.kind = "cleanup" => clock >= t.due
  /\ timers' = timers \ {t}
  /\ notBefore' = Max2(notBefore, t.due)
  /\ destructionPending' = IF t.kind = "pending" THEN FALSE ELSE destructionPending
  /\ updates' = IF t.kind = "cleanup"
                THEN Append(updates, Upd("cleanup", {}, t.id, 0, 0, <<>>))
                ELSE updates
  /\ ev' = NoEvent("timer")
  /\ hist' = Accumulate(hist, ev)
  /\ UNCHANGED <<gameStarted, isGameOver, isLocked, isMobile, score, sentinels,
                 collectedStars, explosions, playerPosRef, gameTimeRef, lastSpawnTime,
                 lastProximityReport, clock, frameNo, nextId, nextExplosion>>
  /\ UNCHANGED <<wispVars, worldVars>>

\* ------------------------------------------------------------------ agent
\* Wisp (part_001).  Lengths are hundredths of a unit, velocities hundredths
\* per second, times milliseconds, directions thousandths; a vector is <<x, y, z>>.
MOVE_SPEED_BASE == 1200
GRAVITY == 5500
JUMP_FORCE == 3000
WALL_JUMP_FORCE_UP == 3400
WALL_JUMP_FORCE_OUT == 4500
GRAPPLE_PULL_FORCE == 4000
PLAYER_RADIUS == 15
COLLISION_BUFFER == 150
STICKY_FORCE == 3000
WallJumpPause == 250
GrappleRange == 15000
\* what the quotient by a zero direction component is compared as (Infinity)
Infinity == 1000000000

\* a building's faces on the agent's grid
Box(b) ==
  [minX |-> 10 * b.position[1] - 5 * b.scale[1], maxX |-> 10 * b.position[1] + 5 * b.scale[1],
   minY |-> 10 * b.position[2] - 5 * b.scale[2], maxY |-> 10 * b.position[2] + 5 * b.scale[2],
   minZ |-> 10 * b.position[3] - 5 * b.scale[3], maxZ |-> 10 * b.position[3] + 5 * b.scale[3],
   centre |-> <<10 * b.position[1], 10 * b.position[2], 10 * b.position[3]>>,
   halfX |-> 5 * b.scale[1], halfY |-> 5 * b.scale[2], halfZ |-> 5 * b.scale[3],
   widest |-> 10 * Max2(b.scale[1], b.scale[3])]

\* ----------------------------------------------------------- checkCollision
NoCollision == [type |-> "none", y |-> 0, normal |-> <<0, 0, 0>>, snapPos |-> <<0, 0, 0>>]

\* the box test without the collision buffer
InBareBox(c, pos) ==
  /\ ~(pos[2] < c.minY)
  /\ pos[1] > c.minX /\ pos[1] < c.maxX
  /\ pos[3] > c.minZ /\ pos[3] < c.maxZ
  /\ pos[2] < c.maxY

\* the building passes the four `continue` tests and the buffered box test
InBufferedBox(c, pos) ==
  /\ ~(Abs(pos[1] - c.centre[1]) > c.halfX + PLAYER_RADIUS + 300)
  /\ ~(Abs(pos[3] - c.centre[3]) > c.halfZ + PLAYER_RADIUS + 300)
  /\ ~(pos[2] > c.maxY + 200)
  /\ ~(pos[2] < c.minY)
  /\ pos[1] > c.minX - COLLISION_BUFFER /\ pos[1] < c.maxX + COLLISION_BUFFER
  /\ pos[3] > c.minZ - COLLISION_BUFFER /\ pos[3] < c.maxZ + COLLISION_BUFFER
  /\ pos[2] < c.maxY + COLLISION_BUFFER

\* a wall result that tries the z faces before the x faces
WallContactZFirst(c, pos) ==
  LET distMinX == Abs(pos[1] - c.minX)
      distMaxX == Abs(pos[1] - c.maxX)
      distMinZ == Abs(pos[3] - c.minZ)
      distMaxZ == Abs(pos[3] - c.maxZ)
      min == Min2(Min2(distMinX, distMaxX), Min2(distMinZ, distMaxZ))
  IN IF min = distMinZ
     THEN [type |-> "wall", y |-> 0, normal |-> <<0, 0, -1>>,
           snapPos |-> <<pos[1], pos[2], c.minZ - PLAYER_RADIUS>>]
     ELSE IF min = distMaxZ
     THEN [type |-> "wall", y |-> 0, normal |-> <<0, 0, 1>>,
           snapPos |-> <<pos[1], pos[2], c.maxZ + PLAYER_RADIUS>>]
     ELSE IF min = distMinX
     THEN [type |-> "wall", y |-> 0, normal |-> <<-1, 0, 0>>,
           snapPos |-> <<c.minX - PLAYER_RADIUS, pos[2], pos[3]>>]
     ELSE [type |-> "wall", y |-> 0, normal |-> <<1, 0, 0>>,
           snapPos |-> <<c.maxX + PLAYER_RADIUS, pos[2], pos[3]>>]

\* a wall result that snaps onto the face itself
WallContactOnFace(c, pos) ==
  LET distMinX == Abs(pos[1] - c.minX)
      distMaxX == Abs(pos[1] - c.maxX)
      distMinZ == Abs(pos[3] - c.minZ)
      distMaxZ == Abs(pos[3] - c.maxZ)
      min == Min2(Min2(distMinX, distMaxX), Min2(distMinZ, distMaxZ))
  IN IF min = distMinX
     THEN [type |-> "wall", y |-> 0, normal |-> <<-1, 0, 0>>,
           snapPos |-> <<c.minX, pos[2], pos[3]>>]
     ELSE IF min = distMaxX
     THEN [type |-> "wall", y |-> 0, normal |-> <<1, 0, 0>>,
           snapPos |-> <<c.maxX, pos[2], pos[3]>>]
     ELSE IF min = distMinZ
     THEN [type |-> "wall", y |-> 0, normal |-> <<0, 0, -1>>,
           snapPos |-> <<pos[1], pos[2], c.minZ>>]
     ELSE [type |-> "wall", y |-> 0, normal |-> <<0, 0, 1>>,
           snapPos |-> <<pos[1], pos[2], c.maxZ>>]

\* the wall result: the first least of the four horizontal face distances
WallContact(c, pos) ==
  LET distMinX == Abs(pos[1] - c.minX)
      distMaxX == Abs(pos[1] - c.maxX)
      distMinZ == Abs(pos[3] - c.minZ)
      distMaxZ == Abs(pos[3] - c.maxZ)
      min == Min2(Min2(distMinX, distMaxX), Min2(distMinZ, distMaxZ))
  IN IF min = distMinX
     THEN [type |-> "wall", y |-> 0, normal |-> <<-1, 0, 0>>,
           snapPos |-> <<c.minX - PLAYER_RADIUS, pos[2], pos[3]>>]
     ELSE IF min = distMaxX
     THEN [type |-> "wall", y |-> 0, normal |-> <<1, 0, 0>>,
           snapPos |-> <<c.maxX + PLAYER_RADIUS, pos[2], pos[3]>>]
     ELSE IF min = distMinZ
     THEN [type |-> "wall", y |-> 0, normal |-> <<0, 0, -1>>,
           snapPos |-> <<pos[1], pos[2], c.minZ - PLAYER_RADIUS>>]
     ELSE IF min = distMaxZ
     THEN [type |-> "wall", y |-> 0, normal |-> <<0, 0, 1>>,
           snapPos |-> <<pos[1], pos[2], c.maxZ + PLAYER_RADIUS>>]
     ELSE [type |-> "wall", y |-> 0, normal |-> <<0, 0, 0>>, snapPos |-> pos]

\* a classification without the world floor
checkCollisionNoWorldFloor(pos) ==
  LET hit == {k \in 1..Len(buildings) : InBufferedBox(Box(buildings[k]), pos)}
  IN IF hit = {} THEN NoCollision
     ELSE LET c == Box(buildings[CHOOSE k \in hit : \A m \in hit : k <= m])
          IN IF pos[2] >= c.maxY - 100
             THEN [type |-> "floor", y |-> c.maxY + PLAYER_RADIUS,
                   normal |-> <<0, 0, 0>>, snapPos |-> <<0, 0, 0>>]
             ELSE WallContact(c, pos)

checkCollision(pos) ==
  IF pos[2] < PLAYER_RADIUS
  THEN [type |-> "floor", y |-> PLAYER_RADIUS, normal |-> <<0, 0, 0>>, snapPos |-> <<0, 0, 0>>]
  ELSE LET hit == {k \in 1..Len(buildings) : InBufferedBox(Box(buildings[k]), pos)}
       IN IF hit = {} THEN NoCollision
          ELSE LET c == Box(buildings[CHOOSE k \in hit : \A m \in hit : k <= m])
               IN IF pos[2] >= c.maxY - 100
                  THEN [type |-> "floor", y |-> c.maxY + PLAYER_RADIUS,
                        normal |-> <<0, 0, 0>>, snapPos |-> <<0, 0, 0>>]
                  ELSE WallContact(c, pos)

\* ----------------------------------------------------------- castGrappleRay
\* (face - o) / d; a zero d gives +Infinity or -Infinity (0 / 0 is RayNaN's case)
RayT(face, o, d) ==
  IF d = 0 THEN (IF face > o THEN Infinity ELSE IF face < o THEN -Infinity ELSE 0)
  ELSE RDiv((face - o) * 1000 * Sign(d), Abs(d))

\* some quotient is 0 / 0: tmin and tmax are NaN and every comparison is false
RayNaN(c, origin, dir) ==
  \/ dir[1] = 0 /\ origin[1] \in {c.minX, c.maxX}
  \/ dir[2] = 0 /\ origin[2] \in {c.minY, c.maxY}
  \/ dir[3] = 0 /\ origin[3] \in {c.minZ, c.maxZ}

\* the slab test on one building: the entry distance, or -1 when the loop moves on
RayEntry(c, origin, dir, minDist) ==
  LET t1 == RayT(c.minX, origin[1], dir[1])
      t2 == RayT(c.maxX, origin[1], dir[1])
      t3 == RayT(c.minY, origin[2], dir[2])
      t4 == RayT(c.maxY, origin[2], dir[2])
      t5 == RayT(c.minZ, origin[3], dir[3])
      t6 == RayT(c.maxZ, origin[3], dir[3])
      tmin == Max2(Max2(Min2(t1, t2), Min2(t3, t4)), Min2(t5, t6))
      tmax == Min2(Min2(Max2(t1, t2), Max2(t3, t4)), Max2(t5, t6))
  IN IF V3Length(V3Sub(origin, c.centre)) > minDist + c.widest THEN -1
     ELSE IF RayNaN(c, origin, dir) THEN -1
     ELSE IF tmax < 0 THEN -1
     ELSE IF tmin > tmax THEN -1
     ELSE IF tmin < minDist /\ tmin > 0 THEN tmin
     ELSE -1

RECURSIVE RayLoop(_, _, _, _, _)
RayLoop(origin, dir, k, minDist, hitPoint) ==
  IF k > Len(buildings) THEN hitPoint
  ELSE LET t == RayEntry(Box(buildings[k]), origin, dir, minDist)
       IN IF t < 0 THEN RayLoop(origin, dir, k + 1, minDist, hitPoint)
          ELSE RayLoop(origin, dir, k + 1, t, V3Add(origin, V3Scale(dir, t, 1000)))

\* the nearest entry point within range, or <<>> for null
castGrappleRay(origin, dir) == RayLoop(origin, dir, 1, GrappleRange, <<>>)

\* ---------------------------------------------------------- Wisp useFrame
GLIDE_GRAVITY_SCALE == 2          \* tenths
\* the refs as one record, with what the tick has done so far
Agent ==
  [position |-> position, velocity |-> velocity, state |-> state,
   wallNormal |-> wallNormal, canJump |-> canJump, canGrapple |-> canGrapple,
   grapplePoint |-> grapplePoint, wallJumpCooldown |-> wallJumpCooldown,
   jumped |-> "none", attached |-> FALSE]

\* dynamicSpeed
moveSpeed == MOVE_SPEED_BASE + (MOVE_SPEED_BASE * score * 2) \div 100

\* if (wallJumpCooldown.current > 0) wallJumpCooldown.current -= dt
CooldownStage(w, dt) ==
  IF w.wallJumpCooldown > 0 THEN [w EXCEPT !.wallJumpCooldown = @ - dt] ELSE w

\* grapple logic that attaches whether or not canGrapple is set
GrappleStageUnlatched(w, in) ==
  IF in.grapple
  THEN IF w.grapplePoint = <<>> /\ castGrappleRay(w.position, in.rayDir) # <<>>
       THEN [w EXCEPT !.grapplePoint = castGrappleRay(w.position, in.rayDir),
                      !.state = "GRAPPLING", !.attached = TRUE]
       ELSE w
  ELSE [w EXCEPT !.state = IF @ = "GRAPPLING" THEN "AIR" ELSE @,
                 !.grapplePoint = <<>>, !.canGrapple = TRUE]

\* grapple logic that restores canGrapple only when it lets go of a rope
GrappleStageRestoresOnRope(w, in) ==
  IF in.grapple
  THEN IF w.canGrapple /\ w.grapplePoint = <<>> /\ castGrappleRay(w.position, in.rayDir) # <<>>
       THEN [w EXCEPT !.grapplePoint = castGrappleRay(w.position, in.rayDir),
                      !.state = "GRAPPLING", !.attached = TRUE]
       ELSE w
  ELSE IF w.state = "GRAPPLING"
  THEN [w EXCEPT !.state = "AIR",
                 !.velocity = IF V3Length(w.velocity) > moveSpeed
                              THEN V3Add(w.velocity, V3Scale(w.velocity, 15, 100))
                              ELSE w.velocity,
                 !.grapplePoint = <<>>,
                 !.canGrapple = TRUE]
  ELSE w

\* grapple logic that boosts on any tick with the input released
GrappleStageBoostsOffRope(w, in) ==
  IF in.grapple
  THEN IF w.canGrapple /\ w.grapplePoint = <<>> /\ castGrappleRay(w.position, in.rayDir) # <<>>
       THEN [w EXCEPT !.grapplePoint = castGrappleRay(w.position, in.rayDir),
                      !.state = "GRAPPLING", !.attached = TRUE]
       ELSE w
  ELSE [w EXCEPT !.state = IF @ = "GRAPPLING" THEN "AIR" ELSE @,
                 !.velocity = IF V3Length(w.velocity) > moveSpeed
                              THEN V3Add(w.velocity, V3Scale(w.velocity, 15, 100))
                              ELSE w.velocity,
                 !.grapplePoint = <<>>,
                 !.canGrapple = TRUE]

\* Grapple Logic: attach on a hit while allowed, or release with the 15% boost
GrappleStage(w, in) ==
  IF in.grapple
  THEN IF w.canGrapple /\ w.grapplePoint = <<>>
       THEN LET hit == castGrappleRay(w.position, in.rayDir)
            IN IF hit # <<>>
               THEN [w EXCEPT !.grapplePoint = hit, !.state = "GRAPPLING", !.attached = TRUE]
               ELSE w
       ELSE w
  ELSE [w EXCEPT !.state = IF @ = "GRAPPLING" THEN "AIR" ELSE @,
                 !.velocity = IF w.state = "GRAPPLING" /\ V3Length(w.velocity) > moveSpeed
                              THEN V3Add(w.velocity, V3Scale(w.velocity, 15, 100))
                              ELSE w.velocity,
                 !.grapplePoint = <<>>,
                 !.canGrapple = TRUE]

\* full gravity in every state
GravityMultFull(w) == 10

\* gravityMult, in tenths
GravityMult(w) ==
  IF w.state = "WALL" THEN 0
  ELSE IF w.state = "GRAPPLING" THEN 5
  ELSE IF w.state = "AIR" /\ w.velocity[2] < 0 THEN GLIDE_GRAVITY_SCALE
  ELSE 10

\* a tick without gravity
NoGravity(w, dt) == w

\* gravity that acts only on an agent already on its way down
GravityOnlyFalling(w, dt) ==
  IF w.state # "WALL" /\ w.state # "GROUND" /\ w.velocity[2] < 0
  THEN [w EXCEPT !.velocity[2] = @ - RDiv(GRAVITY * GLIDE_GRAVITY_SCALE * dt, 10000)]
  ELSE w

GravityStage(w, dt) ==
  IF w.state # "WALL" /\ w.state # "GROUND"
  THEN [w EXCEPT !.velocity[2] = @ - RDiv(GRAVITY * GravityMult(w) * dt, 10000)]
  ELSE w

\* a rope with the spring at dist * 3.0 and no speed limiter
GrappleMoveStiff(w, in, dt) ==
  LET toPoint == V3Sub(w.grapplePoint, w.position)
      springForce == GRAPPLE_PULL_FORCE + V3Length(toPoint) * 3
      pulled == V3Add(w.velocity,
                      V3Scale(V3Normalize(toPoint), RDiv(springForce * dt, 1000), 1000))
  IN [w EXCEPT !.velocity =
                 IF in.inputDir # <<0, 0, 0>>
                 THEN V3Add(pulled, V3Scale(in.inputDir, RDiv(moveSpeed * 2 * dt, 1000), 1000))
                 ELSE pulled]

\* a rope that reels the agent in at a fixed speed
GrappleMoveReel(w, in, dt) ==
  [w EXCEPT !.velocity = V3Scale(V3Normalize(V3Sub(w.grapplePoint, w.position)),
                                 GRAPPLE_PULL_FORCE, 1000)]

\* springForce = GRAPPLE_PULL_FORCE + dist * 1.5
SpringForce(w) == GRAPPLE_PULL_FORCE + (V3Length(V3Sub(w.grapplePoint, w.position)) * 3) \div 2

\* the rope: spring pull, swing input, speed limiter
GrappleMove(w, in, dt) ==
  LET toPoint == V3Sub(w.grapplePoint, w.position)
      springForce == SpringForce(w)
      pulled == V3Add(w.velocity,
                      V3Scale(V3Normalize(toPoint), RDiv(springForce * dt, 1000), 1000))
      swung == IF in.inputDir # <<0, 0, 0>>
               THEN V3Add(pulled, V3Scale(in.inputDir, RDiv(moveSpeed * 2 * dt, 1000), 1000))
               ELSE pulled
  IN [w EXCEPT !.velocity = IF 2 * V3Length(swung) > 5 * moveSpeed
                            THEN V3Scale(swung, 97, 100)
                            ELSE V3Scale(swung, 998, 1000)]

\* on the wall: slide, damp, stick; the wall jump
WallMove(w, in, dt) ==
  LET n == w.wallNormal
      vDotN == V3Dot(w.velocity, n)
      v1 == IF vDotN < 0 THEN V3Sub(w.velocity, <<n[1] * vDotN, n[2] * vDotN, n[3] * vDotN>>)
            ELSE w.velocity
      inputDotN == V3Dot(in.inputDir, n)
      wallMoveDir == V3Sub(in.inputDir, <<n[1] * inputDotN, n[2] * inputDotN, n[3] * inputDotN>>)
      v2 == V3Add(v1, V3Scale(wallMoveDir, RDiv(moveSpeed * 6 * dt, 1000), 1000))
      v3 == <<RDiv(v2[1] * 92, 100), RDiv(v2[2] * 6, 10), RDiv(v2[3] * 92, 100)>>
      stick == RDiv(STICKY_FORCE * dt, 1000)
      v4 == V3Sub(v3, <<n[1] * stick, n[2] * stick, n[3] * stick>>)
  IN IF in.jump /\ w.canJump
     THEN [w EXCEPT !.velocity =
                      V3Add(V3Add(<<v4[1], WALL_JUMP_FORCE_UP, v4[3]>>,
                                  <<n[1] * WALL_JUMP_FORCE_OUT, n[2] * WALL_JUMP_FORCE_OUT,
                                    n[3] * WALL_JUMP_FORCE_OUT>>),
                            IF in.inputDir # <<0, 0, 0>> THEN V3Scale(in.inputDir, 500, 1000)
                            ELSE <<0, 0, 0>>),
                    !.state = "AIR", !.canJump = FALSE, !.grapplePoint = <<>>,
                    !.wallJumpCooldown = WallJumpPause, !.jumped = "wall"]
     ELSE [w EXCEPT !.velocity = v4]

\* Math.exp(-x) on a grid of 1/10000, x in 1/10000 (five terms of the series)
ExpNeg(x) ==
  LET t5 == 10000 - x \div 5
      t4 == 10000 - (x * t5) \div 40000
      t3 == 10000 - (x * t4) \div 30000
      t2 == 10000 - (x * t3) \div 20000
  IN 10000 - (x * t2) \div 10000

\* friction, in thousandths per second
Friction(w) ==
  LET hSpeed == V3Length(<<w.velocity[1], 0, w.velocity[3]>>)
  IN IF w.state = "GROUND" THEN 14000
     ELSE IF hSpeed > moveSpeed
     THEN 100 - (99 * Min2(1000, ((hSpeed - moveSpeed) * 1000) \div moveSpeed)) \div 1000
     ELSE 100

\* ground and air movement that does nothing
GroundAirStill(w, in, dt) == w

\* ground and air: input force up to the run speed, drag, the ground jump
\* currentHVel.dot(inputDir)
SpeedInDir(v, dir) == RDiv(v[1] * dir[1] + v[3] * dir[3], 1000)

\* an input force that adds accel * dt whatever the speed already is
AccelToApplyUncapped(w, in, dt) ==
  IF in.inputDir # <<0, 0, 0>>
  THEN RDiv((IF w.state = "GROUND" THEN 6000 ELSE 4500) * dt, 1000)
  ELSE 0

\* 1. Apply Input Force: how much speed the input adds along inputDir
AccelToApply(w, in, dt) ==
  LET accel == IF w.state = "GROUND" THEN 6000 ELSE 4500
      availableSpeed == moveSpeed - SpeedInDir(w.velocity, in.inputDir)
  IN IF in.inputDir # <<0, 0, 0>> /\ availableSpeed > 0
     THEN Min2(availableSpeed, RDiv(accel * dt, 1000))
     ELSE 0

\* the velocity once the input force is added, before the drag
InputForce(w, in, dt) ==
  <<w.velocity[1] + RDiv(in.inputDir[1] * AccelToApply(w, in, dt), 1000),
    w.velocity[2],
    w.velocity[3] + RDiv(in.inputDir[3] * AccelToApply(w, in, dt), 1000)>>

GroundAirMove(w, in, dt) ==
  LET dragFactor == ExpNeg((Friction(w) * dt) \div 100)
      vx == RDiv(InputForce(w, in, dt)[1] * dragFactor, 10000)
      vz == RDiv(InputForce(w, in, dt)[3] * dragFactor, 10000)
  IN IF in.jump /\ w.state = "GROUND" /\ w.canJump
     THEN [w EXCEPT !.velocity = <<vx, JUMP_FORCE, vz>>, !.state = "AIR",
                    !.canJump = FALSE, !.jumped = "ground"]
     ELSE [w EXCEPT !.velocity = <<vx, w.velocity[2], vz>>]

MovementStage(w, in, dt) ==
  IF w.state = "GRAPPLING" /\ w.grapplePoint # <<>> THEN GrappleMove(w, in, dt)
  ELSE IF w.state = "WALL" THEN WallMove(w, in, dt)
  ELSE GroundAirMove(w, in, dt)

\* a latch that every tick sets, and one that no tick sets
LatchAlways(w, in) == [w EXCEPT !.canJump = TRUE]
LatchNever(w, in) == w

\* if (!isJumpPressed) canJump.current = true
LatchStage(w, in) == IF ~in.jump THEN [w EXCEPT !.canJump = TRUE] ELSE w

\* the collision outcome puts the agent on a surface
Lands(w, c) ==
  \/ c.type = "floor" /\ ~(w.velocity[2] > 0)
  \/ c.type = "wall" /\ ~(w.wallJumpCooldown > 0)

\* a collision step that only moves the agent
CollisionMovesOnly(w, nextPos, c) == [w EXCEPT !.position = nextPos]

\* a collision step that sticks to a wall whatever the wall-jump cooldown
CollisionIgnoresPause(w, nextPos, c) ==
  IF c.type = "wall"
  THEN [w EXCEPT !.position = c.snapPos, !.state = "WALL", !.wallNormal = c.normal]
  ELSE [w EXCEPT !.position = nextPos]

\* a collision step that lands on a floor without stopping the fall
CollisionLandsMoving(w, nextPos, c) ==
  IF c.type = "floor" /\ ~(w.velocity[2] > 0)
  THEN [w EXCEPT !.position = <<nextPos[1], c.y, nextPos[3]>>, !.state = "GROUND",
                 !.grapplePoint = <<>>,
                 !.canGrapple = IF w.grapplePoint # <<>> THEN FALSE ELSE @]
  ELSE IF c.type = "wall" /\ ~(w.wallJumpCooldown > 0)
  THEN [w EXCEPT !.position = c.snapPos, !.state = "WALL", !.wallNormal = c.normal,
                 !.grapplePoint = <<>>,
                 !.canGrapple = IF w.grapplePoint # <<>> THEN FALSE ELSE @]
  ELSE [w EXCEPT !.position = nextPos,
                 !.state = IF c.type # "wall" /\ @ = "GROUND" THEN "AIR"
                           ELSE IF c.type = "none" /\ @ = "WALL" THEN "AIR" ELSE @]

\* a collision step whose landings leave the rope attached
CollisionKeepsRope(w, nextPos, c) ==
  IF c.type = "floor" /\ ~(w.velocity[2] > 0)
  THEN [w EXCEPT !.position = <<nextPos[1], c.y, nextPos[3]>>, !.velocity[2] = 0,
                 !.state = "GROUND"]
  ELSE IF c.type = "wall" /\ ~(w.wallJumpCooldown > 0)
  THEN [w EXCEPT !.position = c.snapPos, !.state = "WALL", !.wallNormal = c.normal]
  ELSE [w EXCEPT !.position = nextPos,
                 !.state = IF c.type = "none" /\ @ \in {"GROUND", "WALL"} THEN "AIR" ELSE @]

\* what the three branches on collision.type do to the refs
CollisionStage(w, nextPos, c) ==
  IF c.type = "floor"
  THEN IF w.velocity[2] > 0
       THEN [w EXCEPT !.position = nextPos,
                      !.state = IF @ = "GROUND" THEN "AIR" ELSE @]
       ELSE [w EXCEPT !.position = <<nextPos[1], c.y, nextPos[3]>>,
                      !.velocity[2] = 0,
                      !.state = "GROUND",
                      !.grapplePoint = <<>>,
                      !.canGrapple = IF w.grapplePoint # <<>> THEN FALSE ELSE @]
  ELSE IF c.type = "wall"
  THEN IF w.wallJumpCooldown > 0
       THEN [w EXCEPT !.position = nextPos]
       ELSE LET vDotN == V3Dot(w.velocity, c.normal)
            IN [w EXCEPT !.position = c.snapPos,
                         !.state = "WALL",
                         !.wallNormal = c.normal,
                         !.grapplePoint = <<>>,
                         !.canGrapple = IF w.grapplePoint # <<>> THEN FALSE ELSE @,
                         !.velocity = IF vDotN < 0
                                      THEN V3Sub(@, <<c.normal[1] * vDotN, c.normal[2] * vDotN,
                                                      c.normal[3] * vDotN>>)
                                      ELSE @]
  ELSE [w EXCEPT !.position = nextPos,
                 !.state = IF @ \in {"GROUND", "WALL"} THEN "AIR" ELSE @]

\* one physics tick of the mounted agent, past the title screen and the pause guard
WispTick(in) ==
  /\ gameStarted /\ isLocked /\ ~isGameOver
  /\ \E dt \in {WispDt(in.delta)} :
     \E found \in {StarsInReach(position, collectedCache)} :
     \E w1 \in {CooldownStage(Agent, dt)} :
     \E w2 \in {GrappleStage(w1, in)} :
     \E w3 \in {GravityStage(w2, dt)} :
     \E w4 \in {MovementStage(w3, in, dt)} :
     \E w5 \in {LatchStage(w4, in)} :
     \E nextPos \in {V3Add(w5.position, V3Scale(w5.velocity, dt, 1000))} :
     \E c \in {checkCollision(nextPos)} :
     \E w6 \in {CollisionStage(w5, nextPos, c)} :
       /\ position' = w6.position
       /\ velocity' = w6.velocity
       /\ state' = w6.state
       /\ wallNormal' = w6.wallNormal
       /\ canJump' = w6.canJump
       /\ canGrapple' = w6.canGrapple
       /\ grapplePoint' = w6.grapplePoint
       /\ wallJumpCooldown' = w6.wallJumpCooldown
       /\ playerPosRef' = ToScene(w6.position)
       /\ collectedCache' = collectedCache \cup found
       /\ updates' = updates \o CollectCalls(found)
       /\ wev' = [tick |-> TRUE, jump |-> in.jump, grapple |-> in.grapple,
                  jumped |-> w6.jumped, attached |-> w6.attached, contact |-> c.type,
                  landed |-> Lands(w5, c), anchored |-> w5.grapplePoint # <<>>,
                  from |-> state, since |-> sinceJump, dt |-> dt,
                  inView |-> castGrappleRay(position, in.rayDir) # <<>>,
                  at |-> w2.state, vy |-> w2.velocity[2],
                  fell |-> w2.velocity[2] - w3.velocity[2],
                  moved |-> w4.velocity,
                  spring |-> IF w3.state = "GRAPPLING" /\ w3.grapplePoint # <<>>
                             THEN RDiv(SpringForce(w3) * dt, 1000) ELSE 0,
                  swing |-> IF in.inputDir # <<0, 0, 0>>
                            THEN RDiv(moveSpeed * 2 * dt, 1000) ELSE 0,
                  speed |-> V3Length(velocity),
                  released |-> w2.velocity,
                  boosted |-> w2.velocity # w1.velocity,
                  boosts |-> IF w2.attached THEN 0
                             ELSE IF w2.velocity # w1.velocity THEN wev.boosts + 1
                             ELSE wev.boosts,
                  free |-> ~(w3.state = "GRAPPLING" /\ w3.grapplePoint # <<>>)
                           /\ w3.state # "WALL",
                  input |-> in.inputDir # <<0, 0, 0>>,
                  along |-> SpeedInDir(w3.velocity, in.inputDir),
                  pushed |-> SpeedInDir(InputForce(w3, in, dt), in.inputDir),
                  floorY |-> c.y]
       /\ sinceJump' = IF w6.jumped # "none" THEN "held"
                       ELSE IF ~in.jump /\ sinceJump = "held" THEN "released"
                       ELSE sinceJump
       /\ sinceDetach' = IF Lands(w5, c) /\ w5.grapplePoint # <<>> THEN "held"
                         ELSE IF ~in.grapple /\ sinceDetach = "held" THEN "released"
                         ELSE sinceDetach
       /\ wallJumpAge' = IF w6.jumped = "wall" THEN 0
                         ELSE IF wallJumpAge < 0 THEN -1
                         ELSE Min2(wallJumpAge + dt, WallJumpPause)
  /\ tickNo' = tickNo + 1
  /\ UNCHANGED <<gameStarted, isGameOver, isLocked, isMobile, score, sentinels,
                 collectedStars, explosions, gameTimeRef, lastSpawnTime, destructionPending,
                 lastProximityReport, timers, clock, notBefore, frameNo, nextId,
                 nextExplosion, ev, hist>>
  /\ UNCHANGED worldVars

\* the ticks of a run of the agent
WispFrame(in) == tickNo < MaxTicks /\ WispTick(in)

\* ------------------------------------------------------------------- init
NoHistory == [destroyed |-> {}, pairs |-> {}, gameOver |-> 0, session |-> 0, stars |-> {}]

\* a session under way: the mesh positions the pursuit has left around the agent
Snapshot == [clock |-> 60000, gameTime |-> 50000, lastSpawn |-> 55000,
             lastReport |-> 59960, speed |-> 13000, score |-> 1, agent |-> Vec(1000, 300),
             collected |-> {1}]

\* x of each mesh in array order, and whether the frame before the snapshot has
\* queued a spawn that is not rendered yet
InitSentinels ==
  { [xs |-> <<>>, queued |-> TRUE], [xs |-> <<930, 955>>, queued |-> TRUE],
    [xs |-> <<956, 981>>, queued |-> FALSE],
    [xs |-> <<956, 931, 981>>, queued |-> FALSE],
    [xs |-> <<931, 956, 981>>, queued |-> FALSE],
    [xs |-> <<700, 800, 900>>, queued |-> TRUE] }

SceneConstructed ==
  /\ gameStarted = FALSE /\ isGameOver = FALSE /\ isLocked = FALSE
  /\ isMobile \in BOOLEAN
  /\ score = 0 /\ sentinels = <<>> /\ explosions = <<>> /\ updates = <<>>
  /\ collectedStars = {}
  /\ playerPosRef = SpawnPoint
  /\ gameTimeRef = 0 /\ lastSpawnTime = 0 /\ lastProximityReport = 0
  /\ destructionPending = FALSE /\ timers = {}
  /\ clock = 0 /\ notBefore = 0 /\ frameNo = 0 /\ nextId = 1 /\ nextExplosion = 1
  /\ ev = NoEvent("init") /\ hist = NoHistory

SceneUnderWay ==
  /\ gameStarted = TRUE /\ isGameOver = FALSE
  /\ isMobile = FALSE /\ isLocked = TRUE
  /\ score = Snapshot.score /\ explosions = <<>>
  /\ collectedStars = Snapshot.collected
  /\ \E q \in InitSentinels :
       /\ sentinels = [i \in DOMAIN q.xs |-> [id |-> i, speed |-> Snapshot.speed,
                                              fresh |-> FALSE,
                                              pos |-> Vec(q.xs[i], Snapshot.agent.y)]]
       /\ nextId = Len(q.xs) + 1
       /\ updates = IF q.queued
                     THEN << Upd("spawn", {}, MaxSentinels(Snapshot.gameTime),
                                 SentinelSpeed(Snapshot.gameTime, Snapshot.score),
                                 Snapshot.clock, Vec(2500, 0)) >>
                     ELSE <<>>
  /\ playerPosRef = Snapshot.agent
  /\ gameTimeRef = Snapshot.gameTime /\ lastSpawnTime = Snapshot.lastSpawn
  /\ lastProximityReport = Snapshot.lastReport
  /\ destructionPending = FALSE /\ timers = {}
  /\ clock = Snapshot.clock /\ notBefore = 0 /\ frameNo = 0 /\ nextExplosion = 1
  /\ ev = NoEvent("init") /\ hist = NoHistory

\* the agent's refs and the bookkeeping of its ticks
AgentIs(a) ==
  /\ position = a.position /\ velocity = a.velocity /\ state = a.state
  /\ wallNormal = a.wallNormal /\ canJump = a.canJump /\ canGrapple = a.canGrapple
  /\ grapplePoint = a.grapplePoint /\ wallJumpCooldown = a.wallJumpCooldown
  /\ sinceJump = a.sinceJump /\ sinceDetach = a.sinceDetach
  /\ wallJumpAge = a.wallJumpAge
  /\ collectedCache = collectedStars
  /\ tickNo = 0 /\ wev = NoWispEvent

\* the buildings prop, and no point handed to checkCollision outside a tick
WorldIs(bs) == buildings = bs /\ probe = <<>> /\ outcome = NoCollision

\* the stars the scene's agent comes by: one beside its mount point, collected
\* by the time of the snapshot, and one beside the place of the snapshot
StarsNearby == << [id |-> 1, position |-> <<0, 3000, 1100>>],
                  [id |-> 2, position |-> <<10000, 3000, 1100>>] >>

\* the scene starts at construction or under way; its agent is a position only
Init ==
  /\ WorldIs(CityBlock) /\ stars = StarsNearby
  /\ \/ SceneConstructed /\ AgentIs(Mounted)
     \/ SceneUnderWay /\ AgentIs([Mounted EXCEPT !.position = <<10 * Snapshot.agent.x,
                                                                 10 * Snapshot.agent.y, 0>>])

Next ==
  \/ \E delta \in Deltas, pstep \in PlayerSteps, off \in SpawnOffsets : Frame(delta, pstep, off)
  \/ Render
  \/ HandleStartGame
  \/ HandleRestart
  \/ HandleLock
  \/ HandleUnlock
  \/ \E t \in timers : TimerFires(t)

Spec == Init /\ [][Next]_vars

\* ------------------------------------------------------- the agent's runs
\* what a tick polls: Space, the left button, W, and the frame's delta; the
\* camera looks level along +x, at the tower's west face
WispDeltas == {20, 1100}
WispInputs ==
  [jump : BOOLEAN, grapple : BOOLEAN, inputDir : {<<0, 0, 0>>, <<1000, 0, 0>>},
   rayDir : {<<1000, 0, 0>>}, delta : WispDeltas]

\* where a session can have left the agent: at its mount point; standing on the
\* tower's roof; on the ground at the foot of the west face; on the west face;
\* on the rope, closing in on the west face; coming down on the roof from a jump
\* with Space still held
WispSnapshots ==
  { Mounted,
    [Mounted EXCEPT !.position = <<11000, 6015, 0>>, !.state = "GROUND"],
    [Mounted EXCEPT !.position = <<10185, 15, 0>>, !.state = "GROUND"],
    [Mounted EXCEPT !.position = <<10185, 1000, 0>>, !.state = "WALL",
                    !.wallNormal = <<-1, 0, 0>>],
    [Mounted EXCEPT !.position = <<9950, 3000, 0>>, !.state = "GRAPPLING",
                    !.velocity = <<2000, 0, 0>>, !.grapplePoint = <<10200, 3000, 0>>],
    [Mounted EXCEPT !.position = <<11000, 6040, 0>>, !.velocity = <<0, -1000, 0>>,
                    !.canJump = FALSE, !.sinceJump = "held"] }

\* the city with a second tower of the same size, 10 units east of the first
TwoTowers == CityBlock \o << [position |-> <<1570, 300, 0>>, scale |-> <<300, 600, 400>>] >>

\* the agent 0.2 s after a wall jump off the first tower's east face with Space
\* still held, arriving at the second tower's west face
BetweenTowers ==
  [Mounted EXCEPT !.position = <<14301, 3730, 0>>, !.velocity = <<4340, 2575, 0>>,
                  !.canJump = FALSE, !.sinceJump = "held",
                  !.wallJumpCooldown = 50, !.wallJumpAge = 200]

\* the agent of Scenario A: in the air at y = 10, falling at 20
ScenarioA == [Mounted EXCEPT !.position = <<0, 1000, 0>>, !.velocity = <<0, -2000, 0>>]

\* the agent of Scenario C: at rest on the rope, the anchor 50 units east of it
\* on the tower's west face, at its own height
ScenarioC ==
  [Mounted EXCEPT !.position = <<5200, 4000, 0>>, !.state = "GRAPPLING",
                  !.grapplePoint = <<10200, 4000, 0>>]

\* the agent one 0.02 s tick after a ground jump 50 units west of the tower,
\* Space still held
JumpOff ==
  [Mounted EXCEPT !.position = <<5200, 75, 0>>, !.velocity = <<0, JUMP_FORCE, 0>>,
                  !.canJump = FALSE, !.sinceJump = "held"]

\* the agent of Scenario A further down, one unit above the world floor
NearFloor == [ScenarioA EXCEPT !.position = <<0, 100, 0>>]

\* a tower 40 x 300 x 40 whose west face is 120 units east of the origin
TallTower == << [position |-> <<1400, 1500, 0>>, scale |-> <<400, 3000, 400>>] >>

\* the agent standing on the ground at the origin
OnTheGround == [Mounted EXCEPT !.position = <<0, PLAYER_RADIUS, 0>>, !.state = "GROUND"]

\* further places a session can have left the agent, with the buildings around
\* it: on the west face just under the roof, still rising; on the rope above
\* the roof, diving at the anchor just under the speed limit; between two
\* towers; Scenario A, in a scene without buildings; Scenario C; off the ground
\* on a jump; about to reach the world floor in a scene without buildings; on
\* the ground, looking at the foot of a tall tower
WispScenes ==
  [agent : WispSnapshots, world : {CityBlock}] \cup
  { [agent |-> [Mounted EXCEPT !.position = <<10185, 5880, 0>>, !.state = "WALL",
                               !.velocity = <<0, 1000, 0>>, !.wallNormal = <<-1, 0, 0>>],
     world |-> CityBlock],
    [agent |-> [Mounted EXCEPT !.position = <<11000, 7000, 0>>, !.state = "GRAPPLING",
                               !.velocity = <<0, -2990, 0>>,
                               !.grapplePoint = <<11000, 6000, 0>>],
     world |-> CityBlock],
    [agent |-> BetweenTowers, world |-> TwoTowers],
    [agent |-> ScenarioA, world |-> <<>>],
    [agent |-> ScenarioC, world |-> CityBlock],
    [agent |-> JumpOff, world |-> CityBlock],
    [agent |-> NearFloor, world |-> <<>>],
    [agent |-> OnTheGround, world |-> TallTower] }

\* a started, locked desktop session with no sentinel in play, n stars collected
SceneAfter(n) ==
  /\ gameStarted = TRUE /\ isGameOver = FALSE /\ isMobile = FALSE /\ isLocked = TRUE
  /\ score = n /\ sentinels = <<>> /\ explosions = <<>> /\ updates = <<>>
  /\ collectedStars = 1..n
  /\ gameTimeRef = 0 /\ lastSpawnTime = 0 /\ lastProximityReport = 0
  /\ destructionPending = FALSE /\ timers = {}
  /\ clock = 0 /\ notBefore = 0 /\ frameNo = 0 /\ nextId = 1 /\ nextExplosion = 1
  /\ ev = NoEvent("init") /\ hist = NoHistory

SceneRunning == SceneAfter(0)

\* five stars into a session, in the air over open ground and moving east a
\* little faster than the run speed of that score
Striding == [Mounted EXCEPT !.velocity = <<1323, 0, 0>>]

InitWisp ==
  \/ /\ SceneRunning
     /\ \E s \in WispScenes :
          /\ WorldIs(s.world) /\ stars = <<>>
          /\ AgentIs(s.agent) /\ playerPosRef = ToScene(s.agent.position)
  \/ /\ SceneAfter(5)
     /\ WorldIs(<<>>) /\ stars = <<>>
     /\ AgentIs(Striding) /\ playerPosRef = ToScene(Striding.position)

NextWisp ==
  \/ \E in \in WispInputs : WispFrame(in)
  \/ HandleUnlock
  \/ HandleLock

SpecWisp == InitWisp /\ [][NextWisp]_vars

\* -------------------------------------------------- checkCollision, probed
\* the obstacle of Scenario B: centre (0, 0, 0), half-extents (5, 5, 5)
ScenarioCube == << [position |-> <<0, 0, 0>>, scale |-> <<100, 100, 100>>] >>
\* a box of the same size whose base is 5 units above the world floor
Platform == << [position |-> <<0, 100, 0>>, scale |-> <<100, 100, 100>>] >>
\* the buildings props the function is probed with
ObstacleLists == {<<>>, CityBlock, ScenarioCube, Platform}

\* coordinates on, beside and between two faces: the face itself, 0.2 either
\* side of it, the edge of the buffer and just inside and outside it
Near(lo, hi) ==
  {lo - 160, lo - 150, lo - 149, lo - 20, lo, lo + 20, (lo + hi) \div 2,
   hi - 20, hi, hi + 20, hi + 149, hi + 150, hi + 160}

\* the probe points around a box; in y also the rooftop band and the world floor
PointsAround(c) ==
  {<<x, y, z>> : x \in Near(c.minX, c.maxX) \cup {c.maxX - 300},
                 y \in Near(c.minY, c.maxY) \cup {c.maxY - 100, c.maxY - 101, c.minY + 200,
                                                  PLAYER_RADIUS - 1, PLAYER_RADIUS},
                 z \in Near(c.minZ, c.maxZ)}

\* the probe points of an empty scene
OpenPoints == {<<0, y, 0>> : y \in {-10, PLAYER_RADIUS - 1, PLAYER_RADIUS, 897, 900, 1000}}

\* the agent's position in Scenario B, (5.2, 2, 0)
ScenarioPoints == {<<520, 200, 0>>}

\* checkCollision has not been called yet
Unasked == [NoCollision EXCEPT !.type = "unasked"]

InitProbe ==
  /\ SceneRunning /\ AgentIs(Mounted) /\ playerPosRef = SpawnPoint
  /\ buildings \in ObstacleLists /\ stars = <<>>
  /\ probe \in (IF buildings = <<>> THEN OpenPoints
                ELSE PointsAround(Box(buildings[1])) \cup ScenarioPoints)
  /\ outcome = Unasked

\* one call of checkCollision(probe)
Classify ==
  /\ probe # <<>>
  /\ outcome' = checkCollision(probe)
  /\ UNCHANGED <<sceneVars, wispVars, buildings, stars, probe>>

NextProbe == Classify

\* ------------------------------------------------------------- free fall
\* the agent in the air over open ground: Scenario A; a unit above the floor and
\* falling; a unit above the floor and still rising
FallStarts ==
  { ScenarioA, NearFloor,
    [Mounted EXCEPT !.position = <<0, 100, 0>>, !.velocity = <<0, 500, 0>>] }

InitFall ==
  /\ SceneRunning
  /\ WorldIs(<<>>) /\ stars = <<>>
  /\ \E a \in FallStarts : AgentIs(a) /\ playerPosRef = ToScene(a.position)

\* a tick that polls no input at all
FreeFallFrame(delta) ==
  /\ tickNo < MaxFallTicks
  /\ WispTick([jump |-> FALSE, grapple |-> FALSE, inputDir |-> <<0, 0, 0>>,
               rayDir |-> <<1000, 0, 0>>, delta |-> delta])

NextFall == \E delta \in WispDeltas : FreeFallFrame(delta)

\* r3f calls the frame callback on every animation frame while the canvas lives
SpecFall == InitFall /\ [][NextFall]_vars /\ WF_vars(NextFall)

SpecProbe == InitProbe /\ [][NextProbe]_vars

\* ------------------------------------------------ properties of the scene
\* indices of the pairs the scan visits
Pairs == {p \in (1..Len(sentinels)) \X (1..Len(sentinels)) : p[1] < p[2]}
PairDistance(p) == DistanceTo(sentinels[p[1]].pos, sentinels[p[2]].pos)
\* the step is a frame in which the SentinelManager callback runs to its end
SentinelTickStep == frameNo' = frameNo + 1 /\ ~isGameOver
ExplosionsOf(a, b) == {k \in 1..Len(ev.explosions) : {ev.explosions[k].a, ev.explosions[k].b} = {a, b}}

\* C1, as stated: after every sentinel tick, whatever came before it, both
\* members of every pair closer than 3.0 after movement have been removed.
C1_AllClosePairsRemoved ==
  (ev.kind = "frame" /\ ev.sentinelTick) =>
    \A p \in Pairs : PairDistance(p) < DestructionThreshold =>
      {sentinels[p[1]].id, sentinels[p[2]].id} \subseteq ev.destroyed

\* C1, amended: after a sentinel tick that ran the destruction check (no
\* destruction pending), every pair closer than 3.0 after movement has lost at
\* least one member, so no two sentinels left standing are closer than 3.0.
C1_NoClosePairSurvivesCheck ==
  (ev.kind = "frame" /\ ev.checked) =>
    \A p \in Pairs : PairDistance(p) < DestructionThreshold =>
      (sentinels[p[1]].id \in ev.destroyed \/ sentinels[p[2]].id \in ev.destroyed)

\* a checked tick that leaves one member of a close pair standing
C1_Witness ==
  /\ ev.kind = "frame" /\ ev.checked
  /\ \E p \in Pairs :
       /\ PairDistance(p) < DestructionThreshold
       /\ sentinels[p[1]].id \in ev.destroyed
       /\ sentinels[p[2]].id \notin ev.destroyed

\* C2: a tick emits one explosion per destroyed pair: every destroyed sentinel
\* is in exactly one exploded pair, and n destroyed sentinels give n/2 explosions.
C2_OneExplosionPerPair ==
  ev.kind = "frame" =>
    /\ 2 * Len(ev.explosions) = Cardinality(ev.destroyed)
    /\ \A id \in ev.destroyed :
         Cardinality({k \in 1..Len(ev.explosions) :
                        id \in {ev.explosions[k].a, ev.explosions[k].b}}) = 1

\* C3: whatever the order of frames, the 100 ms timer and the React commit, no
\* sentinel is reported destroyed by two ticks.
C3_DestroyedOnce == ev.destroyed \cap hist.destroyed = {}

\* the pair p was spawned 2.0 apart and has not been through a tick yet
FreshPair(p) == sentinels[p[1]].fresh /\ sentinels[p[2]].fresh /\ PairDistance(p) = 20

\* the tick reports both members of p destroyed, with exactly one explosion that
\* involves either of them, placed at the midpoint of where the tick left them
FreshPairOutcome(p) ==
  LET a == sentinels[p[1]].id
      b == sentinels[p[2]].id
      mine == {k \in 1..Len(ev'.explosions) :
                 {ev'.explosions[k].a, ev'.explosions[k].b} \cap {a, b} # {}}
  IN /\ {a, b} \subseteq ev'.destroyed
     /\ Cardinality(mine) = 1
     /\ \A k \in mine :
          /\ {ev'.explosions[k].a, ev'.explosions[k].b} = {a, b}
          /\ ev'.explosions[k].pos2 = Vec(sentinels'[p[1]].pos.x + sentinels'[p[2]].pos.x,
                                         sentinels'[p[1]].pos.y + sentinels'[p[2]].pos.y)

\* C4, as stated: two sentinels spawned 2.0 apart are both destroyed by the
\* next sentinel tick, with exactly one explosion, at their midpoint.
C4_FreshPairDestroyed ==
  [][SentinelTickStep => \A p \in Pairs : FreshPair(p) => FreshPairOutcome(p)]_vars

\* C4, amended: two sentinels spawned 2.0 apart are both destroyed by the next
\* sentinel tick, with exactly one explosion between them, at the midpoint of
\* their positions after movement, provided no destruction is pending at that
\* tick, they are still closer than 3.0 after moving and no other sentinel is
\* then closer than 3.0 to either.
C4_FreshPairDestroyedWhenChecked ==
  [][SentinelTickStep /\ ~destructionPending =>
       \A p \in Pairs :
         ( /\ FreshPair(p)
           /\ DistanceTo(sentinels'[p[1]].pos, sentinels'[p[2]].pos) < DestructionThreshold
           /\ \A k \in 1..Len(sentinels) : k \notin {p[1], p[2]} =>
                /\ DistanceTo(sentinels'[k].pos, sentinels'[p[1]].pos) >= DestructionThreshold
                /\ DistanceTo(sentinels'[k].pos, sentinels'[p[2]].pos) >= DestructionThreshold )
         => FreshPairOutcome(p)
    ]_vars

\* the tick after the spawn has destroyed two fresh sentinels in one explosion
C4_Witness ==
  /\ ev.kind = "frame" /\ ev.checked
  /\ \E a, b \in ev.fresh : a # b /\ Cardinality(ExplosionsOf(a, b)) = 1
                              /\ {a, b} \subseteq ev.destroyed

C6_GameOverTerminal ==
  [][isGameOver =>
       /\ isGameOver' \/ ev'.kind = "restart"
       /\ ev'.kind # "restart" => sentinels' = sentinels
       /\ ~ev'.sentinelTick /\ ~ev'.moved /\ ~ev'.spawnRequested
       /\ ev'.destroyed = {} /\ ev'.explosions = <<>>
       /\ ev'.gameOver = 0 /\ ev'.proximity = -1
       /\ ~ev'.wispTick /\ playerPosRef' = playerPosRef
       /\ ev'.kind # "restart" => position' = position
    ]_vars

\* a frame has run over a game that is over and still has sentinels mounted
C6_Witness == isGameOver /\ ev.kind = "frame" /\ sentinels # <<>>

\* ------------------------------------------------ properties of the agent
\* the step is a physics tick of the agent
WispTickStep == tickNo' = tickNo + 1
\* canJump goes from clear to set only in a tick that polls jump as released
JumpLatchRestoredOnRelease == (~canJump /\ canJump') => (WispTickStep /\ ~wev'.jump)
\* canGrapple goes from clear to set only in a tick that polls grapple as released
GrappleLatchRestoredOnRelease == (~canGrapple /\ canGrapple') => (WispTickStep /\ ~wev'.grapple)

\* C7: one jump per press. A tick emits a jump event, from the ground or from a
\* wall, only if some tick since the agent's previous jump event polled jump as
\* not pressed.
C7_OneJumpPerPress ==
  [][(WispTickStep /\ wev'.jumped # "none") => sinceJump # "held"]_vars

\* a second jump, after a tick with the input released
C7_Witness == wev.tick /\ wev.jumped # "none" /\ wev.since = "released"

\* C8, as stated: from Ground with canJump set and jump pressed, one tick sets
\* velocity.y to 30, ends in Air and clears canJump, which stays clear until a
\* tick with jump released.
C8_GroundJump ==
  [][/\ (WispTickStep /\ state = "GROUND" /\ canJump /\ wev'.jump) =>
          (velocity'[2] = JUMP_FORCE /\ state' = "AIR" /\ ~canJump')
     /\ JumpLatchRestoredOnRelease
    ]_vars

\* C8, amended: from Ground with canJump set and jump pressed, a tick that
\* acquires no grapple anchor sets velocity.y to 30 and clears canJump, and ends
\* on the Wall if its collision check reports a wall with no wall-jump cooldown
\* running, otherwise in Air; a tick that acquires an anchor performs no jump
\* and leaves canJump set; canJump stays clear until a tick with jump released.
C8_GroundJumpUnlessAnchored ==
  [][/\ (WispTickStep /\ state = "GROUND" /\ canJump /\ wev'.jump /\ ~wev'.attached) =>
          /\ velocity'[2] = JUMP_FORCE
          /\ ~canJump'
          /\ state' = IF wev'.contact = "wall" /\ wev'.landed THEN "WALL" ELSE "AIR"
     /\ (WispTickStep /\ state = "GROUND" /\ canJump /\ wev'.jump /\ wev'.attached) =>
          (wev'.jumped = "none" /\ canJump')
     /\ JumpLatchRestoredOnRelease
    ]_vars

\* a ground jump that ended in Air, and canJump still clear a tick later
C8_Witness ==
  /\ wev.tick /\ wev.jump /\ wev.jumped = "none" /\ wev.since = "held"
  /\ state = "AIR" /\ ~canJump /\ velocity[2] > 0 /\ velocity[2] < JUMP_FORCE

\* C9, as stated: a tick with jump pressed clears canJump in every movement
\* state, and only a tick with the input released sets it again.
C9_ClearedOnPress ==
  [][/\ (WispTickStep /\ wev'.jump) => ~canJump'
     /\ JumpLatchRestoredOnRelease
    ]_vars

\* C9, amended: canJump is cleared exactly by the ticks that execute a jump
\* (pressed, from Ground or from Wall); a press that executes none leaves it as
\* it was; every tick with the input released sets it, and nothing else does.
C9_ClearedByJump ==
  [][/\ WispTickStep =>
          /\ (canJump /\ ~canJump') <=> wev'.jumped # "none"
          /\ wev'.jumped # "none" => (wev'.jump /\ state \in {"GROUND", "WALL"})
          /\ (wev'.jump /\ wev'.jumped = "none") => canJump' = canJump
          /\ ~wev'.jump => canJump'
     /\ JumpLatchRestoredOnRelease
    ]_vars

\* a press in the air that left canJump set
C9_Witness == wev.tick /\ wev.jump /\ wev.from = "AIR" /\ wev.jumped = "none" /\ canJump

\* C10, as stated: every tick whose collision puts the agent on the Ground or
\* on a Wall clears canGrapple, which stays clear until a tick with grapple
\* released.
C10_ClearedOnLanding ==
  [][/\ (WispTickStep /\ wev'.landed) => ~canGrapple'
     /\ GrappleLatchRestoredOnRelease
    ]_vars

\* C10, amended: canGrapple is cleared exactly by the landings (floor or wall)
\* that find an anchor attached and drop it; it stays clear until a tick with
\* grapple released.
C10_ClearedOnAnchoredLanding ==
  [][/\ WispTickStep =>
          /\ (wev'.landed /\ wev'.anchored) => (~canGrapple' /\ grapplePoint' = <<>>)
          /\ (canGrapple /\ ~canGrapple') => (wev'.landed /\ wev'.anchored)
     /\ GrappleLatchRestoredOnRelease
    ]_vars

\* the rope carried the agent onto a surface, and canGrapple is still clear a
\* tick later with the button held
C10_Witness ==
  /\ wev.tick /\ wev.grapple /\ ~wev.anchored /\ ~wev.attached
  /\ ~canGrapple /\ state \in {"WALL", "GROUND"}

\* ------------------------------------------- properties of checkCollision
\* p is strictly inside the box c expanded by the collision buffer on all three axes
InExpandedBox(c, p) ==
  /\ p[1] > c.minX - COLLISION_BUFFER /\ p[1] < c.maxX + COLLISION_BUFFER
  /\ p[2] > c.minY - COLLISION_BUFFER /\ p[2] < c.maxY + COLLISION_BUFFER
  /\ p[3] > c.minZ - COLLISION_BUFFER /\ p[3] < c.maxZ + COLLISION_BUFFER
\* p is inside the box c itself, faces included
InBox(c, p) ==
  /\ p[1] >= c.minX /\ p[1] <= c.maxX
  /\ p[2] >= c.minY /\ p[2] <= c.maxY
  /\ p[3] >= c.minZ /\ p[3] <= c.maxZ
Asked == outcome.type # "unasked"

SixFaceDistances(c, p) ==
  << Abs(p[1] - c.minX), Abs(p[1] - c.maxX), Abs(p[3] - c.minZ), Abs(p[3] - c.maxZ),
     Abs(p[2] - c.minY), Abs(p[2] - c.maxY) >>
SixFaceAxes ==
  << <<-1, 0, 0>>, <<1, 0, 0>>, <<0, 0, -1>>, <<0, 0, 1>>, <<0, -1, 0>>, <<0, 1, 0>> >>
\* the outward axis of the nearest of the first n faces, the first least winning
NearestFaceAxis(c, p, n) ==
  LET d == SixFaceDistances(c, p)
      i == CHOOSE i \in 1..n : (\A j \in 1..n : d[i] <= d[j]) /\ (\A j \in 1..(i - 1) : d[j] > d[i])
  IN SixFaceAxes[i]
\* checkCollision(probe) found a wall of the one building of the scene
WallFound == Asked /\ outcome.type = "wall" /\ Len(buildings) = 1

\* C17, as stated: the normal of a wall contact is the outward axis of the
\* nearest of the six faces (-x, +x, -z, +z, -y, +y), the first least distance
\* winning ties, and is never the zero vector.
C17_NearestOfSixFaces ==
  WallFound => /\ outcome.normal = NearestFaceAxis(Box(buildings[1]), probe, 6)
               /\ outcome.normal # <<0, 0, 0>>

\* C17, amended: the normal of a wall contact is the outward axis of the
\* nearest of the four side faces (-x, +x, -z, +z), the first least distance
\* winning ties, and is never the zero vector; the top and bottom faces are
\* not candidates.
C17_NearestOfFourSides ==
  WallFound => /\ outcome.normal = NearestFaceAxis(Box(buildings[1]), probe, 4)
               /\ outcome.normal # <<0, 0, 0>>

\* a wall contact as near to +x as to +z, and nearer to the base than to either: +x wins
C17_Witness ==
  /\ WallFound /\ outcome.normal = <<1, 0, 0>>
  /\ LET d == SixFaceDistances(Box(buildings[1]), probe)
     IN d[2] = d[4] /\ d[2] < d[1] /\ d[2] < d[3] /\ d[5] < d[2]

\* the snap position the claim describes: p with the coordinate along n put on
\* the face n points out of, moved outward by the radius
SnapOntoFace(c, p, n) ==
  << IF n[1] = -1 THEN c.minX - PLAYER_RADIUS ELSE IF n[1] = 1 THEN c.maxX + PLAYER_RADIUS ELSE p[1],
     IF n[2] = -1 THEN c.minY - PLAYER_RADIUS ELSE IF n[2] = 1 THEN c.maxY + PLAYER_RADIUS ELSE p[2],
     IF n[3] = -1 THEN c.minZ - PLAYER_RADIUS ELSE IF n[3] = 1 THEN c.maxZ + PLAYER_RADIUS ELSE p[3] >>

\* C18: the snap position of a wall contact is the probed position with only
\* the coordinate along the normal replaced, by the face's coordinate moved
\* outward by R, so it lies outside the obstacle's box; the cube of Scenario B
\* probed at (5.2, 2, 0) gives Wall, normal (1, 0, 0), snap x = 5 + R.
C18_SnapOntoFace ==
  /\ WallFound =>
       /\ outcome.snapPos = SnapOntoFace(Box(buildings[1]), probe, outcome.normal)
       /\ ~InBox(Box(buildings[1]), outcome.snapPos)
  /\ (Asked /\ buildings = ScenarioCube /\ probe = <<520, 200, 0>>) =>
       /\ outcome.type = "wall" /\ outcome.normal = <<1, 0, 0>>
       /\ outcome.snapPos = <<500 + PLAYER_RADIUS, 200, 0>>

\* Scenario B has been classified
C18_Witness ==
  /\ buildings = ScenarioCube /\ probe = <<520, 200, 0>>
  /\ outcome.type = "wall" /\ outcome.snapPos[1] = 515

\* ------------------------------------- properties of the agent, continued
\* C11: a tick acquires an anchor only with the grapple input pressed, no
\* anchor attached and canGrapple set; so once a landing has dropped an active
\* grapple, no tick acquires an anchor before a tick with the input released.
C11_AttachOnlyWhenAllowed ==
  [][(WispTickStep /\ wev'.attached) =>
       /\ wev'.grapple /\ grapplePoint = <<>> /\ canGrapple
       /\ grapplePoint' # <<>> \/ wev'.landed
       /\ sinceDetach # "held"
    ]_vars

\* a landing dropped the anchor, and a later tick with the button still held
\* and a building in the line of sight has acquired none
C11_Witness ==
  /\ wev.tick /\ wev.grapple /\ wev.inView /\ ~wev.attached /\ ~wev.anchored
  /\ sinceDetach = "held" /\ grapplePoint = <<>>

\* C12: after a wall jump the state does not become Wall on the jump tick, nor
\* on a later tick before 0.25 s of clamped time have passed since the jump:
\* the agent is never in Wall while wallJumpCooldown > 0.
C12_NoRestickDuringPause ==
  [][WispTickStep =>
       /\ wev'.jumped = "wall" => state' # "WALL"
       /\ state' = "WALL" => /\ wallJumpAge' = -1 \/ wallJumpAge' >= WallJumpPause
                             /\ ~(wallJumpCooldown' > 0)
    ]_vars

\* the agent has met a wall during the pause, passed through, and stuck to it
\* on the tick that completed the 0.25 s
C12_Witness ==
  /\ wev.tick /\ wev.landed /\ wev.contact = "wall" /\ state = "WALL"
  /\ wallJumpAge = WallJumpPause /\ tickNo >= 2

\* C13: wallJumpCooldown is never negative.
C13_CooldownNonNegative == wallJumpCooldown >= 0

\* C14: no residual penetration velocity: whenever a tick ends with the agent
\* in Wall, its velocity has no component into the wall,
\* dot(velocity, wallNormal) >= 0.
C14_NoPenetrationInWall ==
  (wev.tick /\ state = "WALL") => V3Dot(velocity, wallNormal) >= 0

\* the tick about to run is Scenario A: no buildings, the agent in Air at y = 10
\* with velocity (0, -20, 0), and it polls no input at dt = 0.05
ScenarioATick ==
  /\ WispTickStep /\ buildings = <<>> /\ state = "AIR"
  /\ position = ScenarioA.position /\ velocity = ScenarioA.velocity
  /\ ~wev'.jump /\ ~wev'.grapple /\ wev'.dt = 50
  /\ wev'.moved[1] = 0                   \* no movement key held

\* C16, as stated: Scenario A ends at y = 9.0, the position advanced by the
\* velocity (0, -20, 0) times dt, with no floor contact and still in Air.
C16_ScenarioAEndsAtNine ==
  [][ScenarioATick =>
       (position'[2] = 900 /\ wev'.contact = "none" /\ state' = "AIR")]_vars

\* C16, amended: Scenario A first applies the glide gravity, velocity.y =
\* -20 - 0.2 * 55 * 0.05 = -20.55, and advances the position by that velocity
\* times dt, to y = 8.9725 (897 on the grid of hundredths), with no floor
\* contact and still in Air.
C16_ScenarioAAfterGravity ==
  [][ScenarioATick =>
       /\ velocity'[2] = -2055
       /\ position'[2] = position[2] + RDiv(velocity'[2] * 50, 1000)
       /\ position'[2] = 897
       /\ position'[1] = 0 /\ position'[3] = 0
       /\ wev'.contact = "none" /\ state' = "AIR"
    ]_vars

\* Scenario A has run its tick
C16_Witness ==
  /\ buildings = <<>> /\ tickNo = 1 /\ wev.dt = 50 /\ ~wev.jump /\ ~wev.grapple
  /\ position = <<0, 897, 0>> /\ velocity = <<0, -2055, 0>>

\* what a tick of dt ms takes off velocity.y at tenths/10 of GRAVITY
GravityDrop(tenths, dt) == RDiv(GRAVITY * tenths * dt, 10000)

\* C19, as stated: in Air while rising, and in Air while falling with jump
\* held, a tick takes GRAVITY * dt off velocity.y; in Air while falling without
\* jump held 0.2 * GRAVITY * dt; in Grapple 0.5 * GRAVITY * dt; in Wall nothing.
C19_GravityByStateAndJump ==
  [][WispTickStep =>
       /\ (wev'.at = "AIR" /\ wev'.vy > 0) => wev'.fell = GravityDrop(10, wev'.dt)
       /\ (wev'.at = "AIR" /\ wev'.vy < 0 /\ wev'.jump) => wev'.fell = GravityDrop(10, wev'.dt)
       /\ (wev'.at = "AIR" /\ wev'.vy < 0 /\ ~wev'.jump) => wev'.fell = GravityDrop(2, wev'.dt)
       /\ wev'.at = "GRAPPLING" => wev'.fell = GravityDrop(5, wev'.dt)
       /\ wev'.at = "WALL" => wev'.fell = 0
    ]_vars

\* C19, amended: the state is the one the tick's grapple logic leaves. In Air
\* while not falling (velocity.y >= 0) a tick takes GRAVITY * dt off velocity.y;
\* in Air while falling 0.2 * GRAVITY * dt, whether or not jump is held; in
\* Grapple 0.5 * GRAVITY * dt; in Wall and on the Ground nothing.
C19_GravityByState ==
  [][WispTickStep =>
       /\ (wev'.at = "AIR" /\ wev'.vy >= 0) => wev'.fell = GravityDrop(10, wev'.dt)
       /\ (wev'.at = "AIR" /\ wev'.vy < 0) => wev'.fell = GravityDrop(2, wev'.dt)
       /\ wev'.at = "GRAPPLING" => wev'.fell = GravityDrop(5, wev'.dt)
       /\ wev'.at \in {"WALL", "GROUND"} => wev'.fell = 0
    ]_vars

\* a tick in Air, falling, with jump held, has taken the glide fraction off
C19_Witness ==
  /\ wev.tick /\ wev.at = "AIR" /\ wev.vy < 0 /\ wev.jump
  /\ wev.fell = GravityDrop(2, wev.dt) /\ wev.fell > 0

\* the tick starts on the rope, slower than maxSafeSpeed = 2.5 * moveSpeed
RopeTickBelowLimit ==
  WispTickStep /\ state = "GRAPPLING" /\ grapplePoint # <<>> /\ 2 * wev'.speed < 5 * moveSpeed
\* what a tick of dt ms adds to the speed at acc hundredths/s^2, rounded up
SpeedGain(acc, dt) == (acc * dt + 999) \div 1000

\* C20, as stated: a tick that starts in Grapple below 2.5 times the base speed
\* ends with a speed of at most 2.5 times the base speed plus the tick's
\* spring contribution springForce * dt, whatever the input.
C20_SpeedWithinSpring ==
  [][RopeTickBelowLimit =>
       2 * V3Length(velocity') <= 5 * moveSpeed + 2 * (wev'.spring + 2)]_vars

\* C20, amended: a tick that starts in Grapple below 2.5 * moveSpeed and keeps
\* the grapple input pressed ends with a speed of at most 2.5 * moveSpeed plus
\* the tick's spring contribution springForce * dt, its gravity 0.5 * GRAVITY *
\* dt and, when a movement input is held, its swing 2 * moveSpeed * dt.
C20_SpeedWithinTickForces ==
  [][(RopeTickBelowLimit /\ wev'.grapple) =>
       2 * V3Length(velocity') <=
         5 * moveSpeed + 2 * (wev'.spring + SpeedGain(GRAVITY \div 2, wev'.dt)
                              + wev'.swing + 2)]_vars

\* the rope has taken a dive from under the limit past the limit plus the spring
C20_Witness ==
  /\ wev.tick /\ wev.from = "GRAPPLING" /\ wev.grapple /\ state = "GRAPPLING"
  /\ 2 * wev.speed < 5 * moveSpeed
  /\ 2 * V3Length(velocity) > 5 * moveSpeed + 2 * (wev.spring + 2)

\* the step is a tick that starts and ends on the rope, the grapple input held
RopeTick ==
  /\ WispTickStep /\ state = "GRAPPLING" /\ grapplePoint # <<>>
  /\ wev'.grapple /\ state' = "GRAPPLING"

SlingshotTick ==
  WispTickStep /\ ~wev'.grapple /\ state = "GRAPPLING" /\ V3Length(velocity) > moveSpeed
\* v scaled by 1.15, each component to the nearest grid value
Boosted(v, r) == \A i \in 1..3 : Abs(100 * r[i] - 115 * v[i]) <= 50

\* C22: the grapple logic of a tick scales the velocity by 1.15 when the tick
\* releases the grapple input in Grapple state at more than the base speed, and
\* leaves the velocity alone in every other tick; a rope is boosted at most once.
C22_SlingshotOnce ==
  [][WispTickStep =>
       /\ IF SlingshotTick THEN Boosted(velocity, wev'.released) /\ wev'.boosted
          ELSE wev'.released = velocity /\ ~wev'.boosted
       /\ wev'.boosts <= 1]_vars

\* a rope has been released with the boost, and a later tick with the input
\* still released and the agent above the base speed has left the velocity alone
C22_Witness ==
  /\ wev.tick /\ ~wev.grapple /\ wev.boosts = 1 /\ ~wev.boosted
  /\ wev.speed > moveSpeed /\ wev.from # "GRAPPLING"

\* the height of the candidate position of the tick just taken
CandidateY == position[2] + RDiv(wev'.moved[2] * wev'.dt, 1000)

\* C23, as stated: in a scene without buildings no tick finds a contact, and no
\* tick leaves the agent on the ground or on a wall.
C23_NoContactWithoutBuildings ==
  [][(WispTickStep /\ buildings = <<>>) =>
       wev'.contact = "none" /\ state' \notin {"GROUND", "WALL"}]_vars

\* C23, amended: in a scene without buildings a tick finds the world floor when
\* its candidate position is below the agent's radius and no contact otherwise;
\* it never leaves the agent on a wall, and leaves it on the ground only at the
\* world floor's height.
C23_OnlyWorldFloorWithoutBuildings ==
  [][(WispTickStep /\ buildings = <<>>) =>
       /\ wev'.contact = IF CandidateY < PLAYER_RADIUS THEN "floor" ELSE "none"
       /\ state' # "WALL"
       /\ state' = "GROUND" => position'[2] = PLAYER_RADIUS]_vars

\* the agent has come down on the world floor of a scene without buildings
C23_Witness ==
  /\ buildings = <<>> /\ wev.tick /\ wev.contact = "floor" /\ wev.from = "AIR"
  /\ state = "GROUND" /\ position[2] = PLAYER_RADIUS

\* the step is a frame
FrameStep == frameNo' = frameNo + 1
\* the farthest a sentinel of the given speed goes along one axis in 0.05 s
SentinelStepCap(speed) == (speed * MaxDt) \div 100000 + 1

SampledDistances == {DistanceTo(sentinels[i].pos, playerPosRef) : i \in 1..Len(sentinels)}

\* C25: a frame that emits a proximity value emits the least of the distances
\* from the live sentinels to the agent, or 1000 when none is nearer; it comes
\* more than 0.1 s after the emission before it, whose time is the one
\* lastProximityReport holds.
C25_ProximityThrottled ==
  [][FrameStep =>
       /\ ev'.proximity # -1 =>
            /\ \A d \in SampledDistances \cup {10000} : ev'.proximity <= d
            /\ ev'.proximity \in SampledDistances \cup {10000}
            /\ clock' - lastProximityReport > 100
            /\ lastProximityReport' = clock'
       /\ ev'.proximity = -1 => lastProximityReport' = lastProximityReport]_vars

\* two frames in a row, 1.1 s apart, have each emitted the distance of the
\* nearest of several sentinels
C25_Witness ==
  /\ clock = Snapshot.clock + 2200 /\ lastProximityReport = clock
  /\ Len(sentinels) >= 2 /\ ev.proximity >= 0 /\ ev.proximity < NoSentinelDistance
  /\ \E i \in 1..Len(sentinels) : DistanceTo(sentinels[i].pos, playerPosRef) > ev.proximity + 100

\* C26, as stated: on a mobile device, while the game is started and not over,
\* isLocked is true, so the agent's tick passes its pause guard.
C26_MobileLockedWhilePlaying ==
  (isMobile /\ gameStarted /\ ~isGameOver) => isLocked

\* C27: the commit of a restart after game over leaves the agent with its spawn
\* values (position (0, 30, 0), no velocity, AIR, both latches set, no anchor,
\* no cooldown), and no sentinel, no explosion, no collected star and game time 0.
C27_ResetOnRestart ==
  [][(isGameOver /\ ev'.kind = "restart") =>
       /\ ~isGameOver'
       /\ position' = <<0, 3000, 0>> /\ velocity' = <<0, 0, 0>> /\ state' = "AIR"
       /\ canJump' /\ canGrapple' /\ grapplePoint' = <<>> /\ wallJumpCooldown' = 0
       /\ sentinels' = <<>> /\ explosions' = <<>> /\ collectedStars' = {}
       /\ gameTimeRef' = 0]_vars

\* a session that had sentinels, collected stars and game time, and whose agent
\* had left its mount point, has been restarted after game over
C27_Witness ==
  /\ ev.kind = "restart" /\ ~isGameOver /\ hist.gameOver > 0
  /\ nextId > 1 /\ sentinels = <<>> /\ collectedCache # {} /\ collectedStars = {}
  /\ playerPosRef # SpawnPoint /\ position = <<0, 3000, 0>> /\ gameTimeRef = 0

\* C28: a tick that finds the grapple input not pressed ends with canGrapple
\* set, no anchor and a state other than GRAPPLING.
C28_RestoredWhenNotPressed ==
  [][(WispTickStep /\ ~wev'.grapple) =>
       canGrapple' /\ grapplePoint' = <<>> /\ state' # "GRAPPLING"]_vars

\* a landing on the rope has cleared canGrapple, and the first tick with the
\* input released has set it again
C28_Witness ==
  /\ wev.tick /\ ~wev.grapple /\ sinceDetach = "released"
  /\ canGrapple /\ grapplePoint = <<>> /\ state # "GRAPPLING"

\* how far along +x the level ray from the agent enters each building ahead of
\* it, within the grapple's range
EntriesAhead ==
  {Box(buildings[k]).minX - position[1] :
     k \in {j \in 1..Len(buildings) :
              /\ Box(buildings[j]).minY < position[2] /\ position[2] < Box(buildings[j]).maxY
              /\ Box(buildings[j]).minZ < position[3] /\ position[3] < Box(buildings[j]).maxZ
              /\ Box(buildings[j]).minX > position[1]
              /\ Box(buildings[j]).minX - position[1] < GrappleRange}}
NearestEntryAhead == CHOOSE d \in EntriesAhead : \A e \in EntriesAhead : d <= e

\* C29, as stated: the ray of a tick finds a point exactly when some building
\* is entered within range, and a rope attached in the tick is anchored at the
\* nearest entry.
C29_RayFindsNearestEntry ==
  [][WispTickStep =>
       /\ wev'.inView = (EntriesAhead # {})
       /\ (wev'.attached /\ grapplePoint' # <<>>) =>
            grapplePoint' = <<position[1] + NearestEntryAhead, position[2], position[3]>>]_vars

\* a tick that takes the ground-and-air branch with a move input held
InputTick == WispTickStep /\ wev'.free /\ wev'.input
\* the run speed at the score held, 12 * (1 + 0.02 * score)
SpeedCap == 12 * (100 + 2 * score)
\* accel * dt of the tick: 60 on the ground, 45 in the air
RunGain(at, dt) == ((IF at = "GROUND" THEN 60 ELSE 45) * dt) \div 10

\* C30: in Ground and Air the input force leaves the speed along the input
\* direction as it is when that is at or above the run speed of the score, and
\* otherwise adds min(cap - component, accel * dt), accel 60 on the ground and
\* 45 in the air, so that the input never takes the component above the cap.
C30_InputCappedAtRunSpeed ==
  [][InputTick =>
       /\ wev'.along >= SpeedCap => wev'.pushed = wev'.along
       /\ wev'.along < SpeedCap =>
            /\ wev'.pushed = wev'.along + Min2(SpeedCap - wev'.along, RunGain(wev'.at, wev'.dt))
            /\ wev'.pushed <= SpeedCap]_vars
\* a tick whose input brought the component just up to the cap of a score above
\* zero, adding less than accel * dt
C30_Witness ==
  /\ wev.tick /\ wev.free /\ wev.input /\ score > 0
  /\ wev.along < wev.pushed /\ wev.pushed = SpeedCap
  /\ wev.pushed - wev.along < RunGain(wev.at, wev.dt)

\* C31: an anchor is attached exactly when the agent is in Grapple state:
\* never in Ground, Air or Wall, and never Grapple without an anchor.
C31_AnchorIffGrappling == (grapplePoint # <<>>) <=> (state = "GRAPPLING")
\* a tick that came in on the rope and landed: the anchor is gone with the state
C31_Witness ==
  /\ wev.tick /\ wev.anchored /\ wev.landed
  /\ state \in {"GROUND", "WALL"} /\ grapplePoint = <<>>

\* C32: the state becomes Ground only in a tick whose candidate position is in
\* floor contact while the vertical velocity is not upward; that tick puts
\* position.y at the floor height and zeroes velocity.y. Every tick that ends
\* in Ground ends with velocity.y = 0.
C32_GroundOnlyByLanding ==
  [][/\ (state # "GROUND" /\ state' = "GROUND") =>
          /\ WispTickStep /\ wev'.contact = "floor" /\ wev'.moved[2] <= 0
          /\ position'[2] = wev'.floorY /\ velocity'[2] = 0
     /\ (WispTickStep /\ state' = "GROUND") => velocity'[2] = 0]_vars
\* a tick that came down on a floor from the air
C32_Witness ==
  /\ wev.tick /\ wev.from # "GROUND" /\ state = "GROUND" /\ wev.moved[2] < 0
  /\ wev.contact = "floor" /\ position[2] = wev.floorY

\* the agent stands on the world floor
OnWorldFloor == state = "GROUND" /\ position[2] = PLAYER_RADIUS

\* C33, as stated: a tick that starts with the agent standing on the world
\* floor ends in Ground unless the tick jumps, attaches the grapple or meets a
\* wall.
C33_StaysOnWorldFloor ==
  [][(WispTickStep /\ OnWorldFloor /\ state' # "GROUND") =>
       (wev'.jumped # "none" \/ wev'.attached \/ wev'.contact = "wall")]_vars

\* pos is strictly inside the box of building k
InsideBuilding(k, pos) ==
  /\ Box(buildings[k]).minX < pos[1] /\ pos[1] < Box(buildings[k]).maxX
  /\ Box(buildings[k]).minY < pos[2] /\ pos[2] < Box(buildings[k]).maxY
  /\ Box(buildings[k]).minZ < pos[3] /\ pos[3] < Box(buildings[k]).maxZ

\* C34, as stated: a tick never ends with the agent strictly inside the box of
\* a building.
C34_NeverInsideBuilding ==
  wev.tick => \A k \in 1..Len(buildings) : ~InsideBuilding(k, position)

\* the game is paused on desktop
PausedOnDesktop == gameStarted /\ ~isGameOver /\ ~isLocked /\ ~isMobile

\* C35, as stated: a frame that runs while the game is paused on desktop
\* leaves the agent's position, velocity and state and the sentinels, their
\* positions included, as they were, and emits no game-over.
C35_PausedFrameFreezes ==
  [][(PausedOnDesktop /\ FrameStep) =>
       /\ position' = position /\ velocity' = velocity /\ state' = state
       /\ sentinels' = sentinels
       /\ ev'.gameOver = 0]_vars

\* onGameOver calls since the game started or was last restarted
EmittedThisSession == IF ev.kind = "restart" THEN 0 ELSE hist.session + ev.gameOver

\* C36, as stated: between a start or restart and the next restart onGameOver
\* is called at most once.
C36_GameOverEmittedOnce == EmittedThisSession <= 1

\* C37: each star triggers the collect event at most once per session: a tick
\* calls onCollectStar for no star it has been called for since the game
\* started or was last restarted, however many ticks run within pickup range
\* before the collectedStars prop is rendered.
C37_CollectedOncePerSession == ev.collected \cap hist.stars = {}
\* a further tick within reach of a star collected earlier in the session, its
\* collect update not yet rendered
C37_Witness ==
  /\ ev.kind = "frame" /\ ev.wispTick /\ hist.stars # {}
  /\ hist.stars \cap StarsInReachUncached(position, {}) # {}
  /\ hist.stars \cap collectedStars = {}

\* the stars onCollectStar was called for since the game started or was last
\* restarted
CollectedThisSession == IF ev.kind = "restart" THEN {} ELSE hist.stars \cup ev.collected

\* C38, as stated: the agent's collectedCache holds no star id other than those
\* of the scene's collectedStars and those collected since the last restart.
C38_CacheHoldsOnlyCollected == collectedCache \subseteq collectedStars \cup CollectedThisSession

\* C39: the number of live sentinels never exceeds 3 + floor(gameTime / 25),
\* across restarts and however many spawn updates one render applies.
C39_SentinelsWithinCap == Len(sentinels) <= 3 + gameTimeRef \div 25000
\* a render has applied more spawn updates than there was room for, and left
\* the scene at the cap
C39_Witness ==
  /\ ev.kind = "render" /\ ev.refused > 0
  /\ Len(sentinels) = 3 + gameTimeRef \div 25000

\* the agent has come to rest on the world floor
LandedOnWorldFloor == state = "GROUND" /\ position[2] = PLAYER_RADIUS /\ velocity[2] = 0

\* C40: free fall terminates: over open ground and without input, an agent in
\* the air eventually is in Ground on the world floor, as long as ticks keep
\* running.
C40_FreeFallLands == <>LandedOnWorldFloor
\* a fall of several ticks has ended on the world floor
C40_Witness ==
  /\ wev.tick /\ tickNo > 5 /\ wev.from = "AIR" /\ wev.fell > 0
  /\ buildings = <<>> /\ LandedOnWorldFloor

====
